---- MODULE Spec2Model ----
(***************************************************************************)
(* Model of the multi-format book exporter of omniscribe-ai-book-architect *)
(* (Markdown, plain text, EPUB, DOCX, PDF).                                *)
(*                                                                         *)
(* A JavaScript string is modelled as a sequence of characters, each a     *)
(* one-character TLA+ string; sanitizeFilename works on UTF-16 code units  *)
(* (integers), as the regular expression without the u flag does.  HTML    *)
(* produced by the exporters is a sequence of tokens: the characters that  *)
(* come from the input (after escaping) are one-character tokens, the tags *)
(* the exporter inserts are multi-character tokens such as "<strong>".     *)
(***************************************************************************)
EXTENDS Integers, Sequences, FiniteSets, TLC

VARIABLES
    book,         \* the BookProject handed to the exporters
    exporter,     \* which exporter was started: "none", "markdown", "txt", "epub", "docx", "pdfA", "pdfB"
    pc,           \* position of the running exporter
    zip,          \* exportEPUB: the entries of the JSZip archive, in insertion order
    chapterFiles, \* exportEPUB: the chapterFiles array
    out,          \* what the finished exporter produced
    input,        \* text functions: the input string
    op,           \* text functions: the function that was applied ("none" before)
    result,       \* text functions: its result
    host,         \* the browser page: off-screen container, scroll position, alerts
    ui,           \* the designer's export buttons: exportingFormat, downloads, alerts
    gen,          \* the generation manager's module state and its running loops
    capture,      \* the preview-capturing exportPDF: its local variables
    dash          \* Home's project state, the project store, WriterDashboard and its loops

vars == <<book, exporter, pc, zip, chapterFiles, out, input, op, result, host, ui, gen,
          capture, dash>>

\* ------------------------------------------------------------------ bounds

MaxTextLen == 4      \* longest content string of the text-function specification
MaxChapters == 3     \* most chapters of a book
MaxTotalSections == 2 \* most sections of a book, over all its chapters
MaxProbeLen == 2     \* longest user string probed for escaping
MaxHeadLen == 1      \* sanitizeFilename inputs: free characters before the padding
MaxMeasuredPages == 1 \* Strategy B: most full pages of measured content height

\* ------------------------------------------------------------ string helpers

\* the JavaScript value undefined (content?: string): no string, since "undefined"
\* is not a character
Undefined == <<"undefined">>
EmptyStr == <<>>

\* all sequences over S of length at most n
BoundedSeq(S, n) == UNION {[1..k -> S] : k \in 0..n}

Max(a, b) == IF a >= b THEN a ELSE b
Min(a, b) == IF a <= b THEN a ELSE b

\* if (s.content): undefined and "" are falsy, every other string is truthy
\* a plausible slip: only a missing content is skipped, an empty one is not
Truthy_DefinedOnly(v) == v # Undefined

Truthy(v) == v # Undefined /\ v # EmptyStr

\* \s of a JavaScript regular expression, and the white space trim() removes
IsSpace(c) == c \in {" ", "\n", "\t"}

\* does pat occur in s at position i
StartsAt(s, i, pat) ==
    /\ i >= 1
    /\ i + Len(pat) - 1 <= Len(s)
    /\ \A k \in 1..Len(pat) : s[i + k - 1] = pat[k]

\* String.prototype.startsWith
StartsWith(s, pat) == StartsAt(s, 1, pat)

\* s with its first n characters dropped
Drop(s, n) == SubSeq(s, n + 1, Len(s))

RECURSIVE TrimLeft(_)
TrimLeft(s) == IF s # <<>> /\ IsSpace(s[1]) THEN TrimLeft(Tail(s)) ELSE s

RECURSIVE TrimRight(_)
TrimRight(s) ==
    IF s # <<>> /\ IsSpace(s[Len(s)]) THEN TrimRight(SubSeq(s, 1, Len(s) - 1)) ELSE s

\* String.prototype.trim
Trim(s) == TrimRight(TrimLeft(s))

\* String.prototype.split(sep) for a non-empty separator: the pieces between the
\* non-overlapping occurrences of sep, found left to right
RECURSIVE SplitFrom(_, _, _)
SplitFrom(s, sep, i) ==
    LET hits == {j \in i..Len(s) : StartsAt(s, j, sep)} IN
    IF hits = {} THEN <<SubSeq(s, i, Len(s))>>
    ELSE LET j == CHOOSE h \in hits : \A h2 \in hits : h <= h2
         IN  <<SubSeq(s, i, j - 1)>> \o SplitFrom(s, sep, j + Len(sep))

Split(s, sep) == SplitFrom(s, sep, 1)

\* Array.prototype.join
RECURSIVE Join(_, _)
Join(parts, sep) ==
    IF parts = <<>> THEN <<>>
    ELSE IF Len(parts) = 1 THEN parts[1]
    ELSE parts[1] \o sep \o Join(Tail(parts), sep)

\* concatenation of a sequence of sequences
RECURSIVE Flatten(_)
Flatten(ss) == IF ss = <<>> THEN <<>> ELSE ss[1] \o Flatten(Tail(ss))

\* ------------------------------------------------- regular-expression passes

\* (.*?) followed by close, tried from position q: the least position >= q where
\* close occurs, with no line terminator before it ('.' does not match "\n");
\* 0 when there is none
RECURSIVE LazyEnd(_, _, _)
LazyEnd(s, q, close) ==
    IF q + Len(close) - 1 > Len(s) THEN 0
    ELSE IF StartsAt(s, q, close) THEN q
    ELSE IF s[q] = "\n" THEN 0
    ELSE LazyEnd(s, q + 1, close)

\* s.replace(/open(.*?)close/g, pre $1 post), scanning from position i
RECURSIVE ReplacePairFrom(_, _, _, _, _, _)
ReplacePairFrom(s, i, open, close, pre, post) ==
    IF i > Len(s) THEN <<>>
    ELSE LET q == IF StartsAt(s, i, open) THEN LazyEnd(s, i + Len(open), close) ELSE 0
         IN  IF q # 0
             THEN pre \o SubSeq(s, i + Len(open), q - 1) \o post
                      \o ReplacePairFrom(s, q + Len(close), open, close, pre, post)
             ELSE <<s[i]>> \o ReplacePairFrom(s, i + 1, open, close, pre, post)

ReplacePair(s, open, close, pre, post) == ReplacePairFrom(s, 1, open, close, pre, post)

\* number of consecutive "#" from position i
RECURSIVE HashRun(_, _)
HashRun(s, i) == IF i <= Len(s) /\ s[i] = "#" THEN 1 + HashRun(s, i + 1) ELSE 0

MaxHashes == 6

\* s.replace(/#{1,6}\s/g, ''): a match starts at i when the run of "#" from i has
\* 1..6 characters and white space follows it
RECURSIVE StripHeadingMarksFrom(_, _)
StripHeadingMarksFrom(s, i) ==
    IF i > Len(s) THEN <<>>
    ELSE LET run == HashRun(s, i)
         IN  IF run >= 1 /\ run <= MaxHashes /\ i + run <= Len(s) /\ IsSpace(s[i + run])
             THEN StripHeadingMarksFrom(s, i + run + 1)
             ELSE <<s[i]>> \o StripHeadingMarksFrom(s, i + 1)

StripHeadingMarks(s) == StripHeadingMarksFrom(s, 1)

\* .replace(/\*\*(.*?)\*\*/g, '$1')
StripBold(s) == ReplacePair(s, <<"*", "*">>, <<"*", "*">>, <<>>, <<>>)

\* .replace(/\*(.*?)\*/g, '$1')
StripItalic(s) == ReplacePair(s, <<"*">>, <<"*">>, <<>>, <<>>)

\* the grave accent U+0060 (the inline-code mark), which a TLA+ string cannot hold
Backtick == "U+0060"

\* .replace(/U+0060(.*?)U+0060/g, '$1')
StripCode(s) == ReplacePair(s, <<Backtick>>, <<Backtick>>, <<>>, <<>>)

\* \[(.*?)\]\(.*?\) tried with the text starting at q: the least position of a
\* "](" that a ")" on the same line follows, with no line terminator before it
RECURSIVE LinkTextEnd(_, _)
LinkTextEnd(s, q) ==
    IF q > Len(s) THEN 0
    ELSE IF StartsAt(s, q, <<"]", "(">>) /\ LazyEnd(s, q + 2, <<")">>) # 0 THEN q
    ELSE IF s[q] = "\n" THEN 0
    ELSE LinkTextEnd(s, q + 1)

\* .replace(/\[(.*?)\]\(.*?\)/g, '$1')
RECURSIVE StripLinksFrom(_, _)
StripLinksFrom(s, i) ==
    IF i > Len(s) THEN <<>>
    ELSE LET q == IF s[i] = "[" THEN LinkTextEnd(s, i + 1) ELSE 0
         IN  IF q # 0
             THEN SubSeq(s, i + 1, q - 1)
                      \o StripLinksFrom(s, LazyEnd(s, q + 2, <<")">>) + 1)
             ELSE <<s[i]>> \o StripLinksFrom(s, i + 1)

StripLinks(s) == StripLinksFrom(s, 1)

\* buildPlainText: the chain of replace calls applied to a section's content
StripMarkup(s) == StripLinks(StripCode(StripItalic(StripBold(StripHeadingMarks(s)))))

\* ------------------------------------------------------------------ escapeHtml

\* str.replace(/c/g, rep) for a single character c
RECURSIVE ReplaceChar(_, _, _)
ReplaceChar(s, c, rep) ==
    IF s = <<>> THEN <<>>
    ELSE (IF s[1] = c THEN rep ELSE <<s[1]>>) \o ReplaceChar(Tail(s), c, rep)

\* a plausible slip: "&" is not escaped
EscapeHtml_NoAmp(str) ==
    ReplaceChar(ReplaceChar(ReplaceChar(str,
        "<", <<"&", "l", "t", ";">>),
        ">", <<"&", "g", "t", ";">>),
        "\"", <<"&", "q", "u", "o", "t", ";">>)

\* escapeHtml: the four replace calls, "&" first
escapeHtml(str) ==
    ReplaceChar(ReplaceChar(ReplaceChar(ReplaceChar(str,
        "&", <<"&", "a", "m", "p", ";">>),
        "<", <<"&", "l", "t", ";">>),
        ">", <<"&", "g", "t", ";">>),
        "\"", <<"&", "q", "u", "o", "t", ";">>)

\* ------------------------------------------------------- markdownToBasicHtml

\* trimmed.replace(/^> /gm, ''): "> " removed at the start of every line
RECURSIVE StripQuoteMarksLines(_)
StripQuoteMarksLines(ls) ==
    IF ls = <<>> THEN <<>>
    ELSE <<IF StartsWith(ls[1], <<">", " ">>) THEN Drop(ls[1], 2) ELSE ls[1]>>
             \o StripQuoteMarksLines(Tail(ls))

StripQuoteMarks(s) == Join(StripQuoteMarksLines(Split(s, <<"\n">>)), <<"\n">>)

\* the inline pass of a regular paragraph: escape first, then <strong>, then <em>
InlineHtml(trimmed) ==
    ReplacePair(
        ReplacePair(escapeHtml(trimmed), <<"*", "*">>, <<"*", "*">>,
                    <<"<strong>">>, <<"</strong>">>),
        <<"*">>, <<"*">>, <<"<em>">>, <<"</em>">>)

\* the callback of markdownToBasicHtml's map: one blank-line-delimited block
BlockToHtml(block) ==
    LET trimmed == Trim(block)
    IN  IF trimmed = <<>> THEN <<>>
        ELSE IF StartsWith(trimmed, <<"#", "#", "#", " ">>)
             THEN <<"<h3>">> \o escapeHtml(Drop(trimmed, 4)) \o <<"</h3>">>
        ELSE IF StartsWith(trimmed, <<"#", "#", " ">>)
             THEN <<"<h2>">> \o escapeHtml(Drop(trimmed, 3)) \o <<"</h2>">>
        ELSE IF StartsWith(trimmed, <<"#", " ">>)
             THEN <<"<h1>">> \o escapeHtml(Drop(trimmed, 2)) \o <<"</h1>">>
        ELSE IF StartsWith(trimmed, <<">", " ">>)
             THEN <<"<blockquote>", "<p>">> \o escapeHtml(StripQuoteMarks(trimmed))
                      \o <<"</p>", "</blockquote>">>
        ELSE IF trimmed = <<"-", "-", "-">> \/ trimmed = <<"*", "*", "*">>
             THEN <<"<hr/>">>
        ELSE <<"<p>">> \o InlineHtml(trimmed) \o <<"</p>">>

RECURSIVE MapBlocks(_)
MapBlocks(blocks) ==
    IF blocks = <<>> THEN <<>> ELSE <<BlockToHtml(blocks[1])>> \o MapBlocks(Tail(blocks))

\* markdownToBasicHtml: split on blank lines, convert each block, join with "\n"
markdownToBasicHtml(md) == Join(MapBlocks(Split(md, <<"\n", "\n">>)), <<"\n">>)

\* ------------------------------------------------------ reading HTML tokens

OpenTags == {"<h1>", "<h2>", "<h3>", "<h4>", "<blockquote>", "<p>", "<strong>", "<em>", "<div>"}
CloseTags == {"</h1>", "</h2>", "</h3>", "</h4>", "</blockquote>", "</p>", "</strong>", "</em>",
              "</div>"}

CloseOf(t) ==
    CASE t = "<h1>" -> "</h1>"
      [] t = "<h2>" -> "</h2>"
      [] t = "<h3>" -> "</h3>"
      [] t = "<h4>" -> "</h4>"
      [] t = "<div>" -> "</div>"
      [] t = "<blockquote>" -> "</blockquote>"
      [] t = "<p>" -> "</p>"
      [] t = "<strong>" -> "</strong>"
      [] t = "<em>" -> "</em>"

\* an XML parser's nesting check: every end tag closes the innermost open
\* element, and no element is left open at the end
RECURSIVE WellNestedFrom(_, _, _)
WellNestedFrom(toks, i, stack) ==
    IF i > Len(toks) THEN stack = <<>>
    ELSE IF toks[i] \in OpenTags THEN WellNestedFrom(toks, i + 1, <<toks[i]>> \o stack)
    ELSE IF toks[i] \in CloseTags
         THEN /\ stack # <<>>
              /\ CloseOf(stack[1]) = toks[i]
              /\ WellNestedFrom(toks, i + 1, Tail(stack))
    ELSE WellNestedFrom(toks, i + 1, stack)

WellNested(toks) == WellNestedFrom(toks, 1, <<>>)

\* the character data of a token sequence: the tokens that are not tags
IsTag(t) == t \in OpenTags \cup CloseTags \cup {"<hr/>"}

RECURSIVE TextOf(_)
TextOf(toks) ==
    IF toks = <<>> THEN <<>>
    ELSE (IF IsTag(toks[1]) THEN <<>> ELSE <<toks[1]>>) \o TextOf(Tail(toks))

\* ------------------------------------------------------------- the book model

\* An emitted piece of output: role says what the exporter emitted it as, ci and
\* si the chapter and section it came from (0: none); the emitted string is
\* pre \o text \o post, where pre and post are the literal parts of the template
\* and text is the interpolated value.
Item(role, ci, si, pre, text, post) ==
    [role |-> role, ci |-> ci, si |-> si, pre |-> pre, text |-> text, post |-> post]

Emitted(items) == Flatten([k \in 1..Len(items) |-> items[k].pre \o items[k].text \o items[k].post])

Repeat(c, n) == [i \in 1..n |-> c]

NumChapters == Len(book.chapters)

\* the items of every chapter in order: ChapterHead(c, ci) first, then
\* Sec(c, ci, s, si) for each section in order, then ChapterFoot(c, ci)
\* (project.structure.chapters.forEach(... c.sections.forEach(...)))
ForEachChapter(chapters, ChapterHead(_, _), Sec(_, _, _, _), ChapterFoot(_, _)) ==
    Flatten([ci \in 1..Len(chapters) |->
        ChapterHead(chapters[ci], ci)
        \o Flatten([si \in 1..Len(chapters[ci].sections) |->
                       Sec(chapters[ci], ci, chapters[ci].sections[si], si)])
        \o ChapterFoot(chapters[ci], ci)])

NoItems(c, ci) == <<>>

\* ---------------------------------------------------------------- buildMarkdown

MdChapter(c, ci) ==
    <<Item("chapterTitle", ci, 0, <<"#", "#", " ">>, c.title, <<"\n", "\n">>)>>

\* a plausible slip: the content goes through the plain-text strip chain
MdSection_Stripped(c, ci, s, si) ==
    IF Truthy(s.content)
    THEN <<Item("sectionTitle", ci, si, <<"#", "#", "#", " ">>, s.title, <<"\n", "\n">>),
           Item("sectionBody", ci, si, <<>>, StripMarkup(s.content), <<"\n", "\n">>)>>
    ELSE <<>>

MdSection(c, ci, s, si) ==
    IF Truthy(s.content)
    THEN <<Item("sectionTitle", ci, si, <<"#", "#", "#", " ">>, s.title, <<"\n", "\n">>),
           Item("sectionBody", ci, si, <<>>, s.content, <<"\n", "\n">>)>>
    ELSE <<>>

buildMarkdown(project) ==
    <<Item("title", 0, 0, <<"#", " ">>, project.title, <<"\n", "\n">>)>>
    \o (IF Truthy(project.authorName)
        THEN <<Item("author", 0, 0, <<"*", "*">>, project.authorName,
                    <<"*", "*", "\n", "\n", "-", "-", "-", "\n", "\n">>)>>
        ELSE <<>>)
    \o ForEachChapter(project.chapters, MdChapter, MdSection, NoItems)

\* --------------------------------------------------------------- buildPlainText

RuleChar == "U+2500"      \* the box-drawing character of the chapter rule
RuleWidth == 40
AuthorLabel == <<"U+4F5C", "U+8005", " ", "/", " ", "A", "u", "t", "h", "o", "r", ":", " ">>

TxtChapter(c, ci) ==
    <<Item("chapterTitle", ci, 0,
           <<"\n">> \o Repeat(RuleChar, RuleWidth) \o <<"\n">>,
           c.title,
           <<"\n">> \o Repeat(RuleChar, RuleWidth) \o <<"\n", "\n">>)>>

\* a plausible slip: the section is gated on its status as well
TxtSection_CompletedOnly(c, ci, s, si) ==
    IF Truthy(s.content) /\ s.status = "completed"
    THEN <<Item("sectionTitle", ci, si, <<>>, s.title, <<"\n", "\n">>),
           Item("sectionBody", ci, si, <<>>, StripMarkup(s.content), <<"\n", "\n">>)>>
    ELSE <<>>

TxtSection(c, ci, s, si) ==
    IF Truthy(s.content)
    THEN <<Item("sectionTitle", ci, si, <<>>, s.title, <<"\n", "\n">>),
           Item("sectionBody", ci, si, <<>>, StripMarkup(s.content), <<"\n", "\n">>)>>
    ELSE <<>>

buildPlainText(project) ==
    <<Item("title", 0, 0, <<>>, project.title,
           <<"\n">> \o Repeat("=", Len(project.title)) \o <<"\n", "\n">>)>>
    \o (IF Truthy(project.authorName)
        THEN <<Item("author", 0, 0, AuthorLabel, project.authorName, <<"\n", "\n">>)>>
        ELSE <<>>)
    \o ForEachChapter(project.chapters, TxtChapter, TxtSection, NoItems)

\* ------------------------------------------------------------------- exportDOCX

\* a docx Paragraph: its style, its text, and where it came from
Para(role, ci, si, style, text) ==
    [role |-> role, ci |-> ci, si |-> si, style |-> style, text |-> text]

\* a plausible slip: the link pass is left out
DocxClean_NoLinks(trimmed) == StripCode(StripItalic(StripBold(trimmed)))

\* the inline clean-up of a body paragraph
DocxClean(trimmed) == StripLinks(StripCode(StripItalic(StripBold(trimmed))))

DocxRuleWidth == 30

\* lines.forEach(line => ...): the paragraph one content line gives, if any
DocxLine(line, ci, si) ==
    LET trimmed == Trim(line)
    IN  IF trimmed = <<>> THEN <<>>
        ELSE IF StartsWith(trimmed, <<"#", "#", "#", " ">>)
             THEN <<Para("sectionBody", ci, si, "HEADING_3", Drop(trimmed, 4))>>
        ELSE IF StartsWith(trimmed, <<"#", "#", " ">>)
             THEN <<Para("sectionBody", ci, si, "HEADING_2", Drop(trimmed, 3))>>
        ELSE IF StartsWith(trimmed, <<"#", " ">>)
             THEN <<Para("sectionBody", ci, si, "HEADING_1", Drop(trimmed, 2))>>
        ELSE IF StartsWith(trimmed, <<">", " ">>)
             THEN <<Para("sectionBody", ci, si, "quote", Drop(trimmed, 2))>>
        ELSE IF trimmed = <<"-", "-", "-">> \/ trimmed = <<"*", "*", "*">>
             THEN <<Para("sectionBody", ci, si, "rule", Repeat(RuleChar, DocxRuleWidth))>>
        ELSE <<Para("sectionBody", ci, si, "body", DocxClean(trimmed))>>

DocxContent(content, ci, si) ==
    LET lines == Split(content, <<"\n">>)
    IN  Flatten([k \in 1..Len(lines) |-> DocxLine(lines[k], ci, si)])

DocxChapter(c, ci) == <<Para("chapterTitle", ci, 0, "HEADING_1", c.title)>>

DocxSection(c, ci, s, si) ==
    IF ~Truthy(s.content) THEN <<>>
    ELSE <<Para("sectionTitle", ci, si, "HEADING_2", s.title)>>
             \o DocxContent(s.content, ci, si)

DocxChapterEnd(c, ci) == <<Para("pageBreak", ci, 0, "pageBreak", <<>>)>>

\* the children array exportDOCX hands to the Document
DocxChildren(project) ==
    <<Para("front", 0, 0, "spacer", <<>>), Para("title", 0, 0, "title", project.title)>>
    \o (IF Truthy(project.authorName)
        THEN <<Para("front", 0, 0, "spacer", <<>>),
               Para("author", 0, 0, "author", project.authorName)>>
        ELSE <<>>)
    \o <<Para("pageBreak", 0, 0, "pageBreak", <<>>)>>
    \o ForEachChapter(project.chapters, DocxChapter, DocxSection, DocxChapterEnd)

\* ------------------------------------------------------------------- exportEPUB

\* JSZip.file(name, data, options): adds the entry, or replaces the data of the
\* entry of that name where it stands
ZipFile(z, name, compression, data) ==
    LET e == [name |-> name, compression |-> compression, data |-> data]
    IN  IF \E k \in 1..Len(z) : z[k].name = name
        THEN [k \in 1..Len(z) |-> IF z[k].name = name THEN e ELSE z[k]]
        ELSE Append(z, e)

ZipEntry(z, name) == z[CHOOSE k \in 1..Len(z) : z[k].name = name]
HasEntry(z, name) == \E k \in 1..Len(z) : z[k].name = name

\* a plausible slip: the compression option is left out
AddMimetype_Deflated(z) == ZipFile(z, "mimetype", "default", "application/epub+zip")

\* zip.file('mimetype', 'application/epub+zip', { compression: 'STORE' })
AddMimetype(z) == ZipFile(z, "mimetype", "STORE", "application/epub+zip")

\* zip.file('META-INF/container.xml', ...): a literal
AddContainer(z) == ZipFile(z, "META-INF/container.xml", "default", "OEBPS/content.opf")

ChapterId(ci) == "chapter_" \o ToString(ci)
ChapterFilename(ci) == "chapter_" \o ToString(ci) \o ".xhtml"

EpubSection(c, ci, s, si) ==
    IF Truthy(s.content)
    THEN <<Item("sectionTitle", ci, si, <<"<h2>">>, escapeHtml(s.title), <<"</h2>", "\n">>),
           Item("sectionBody", ci, si, <<>>, markdownToBasicHtml(s.content), <<>>)>>
    ELSE <<>>

\* the body of chapter_{ci}.xhtml
EpubChapterBody(chapter, ci) ==
    <<Item("chapterTitle", ci, 0, <<"<h1>">>, escapeHtml(chapter.title), <<"</h1>", "\n">>)>>
    \o Flatten([si \in 1..Len(chapter.sections) |->
                   EpubSection(chapter, ci, chapter.sections[si], si)])

\* chapters.forEach callback: the file of one chapter
AddChapterFile(z, chapter, ci) ==
    ZipFile(z, "OEBPS/" \o ChapterFilename(ci), "default",
            [headTitle |-> escapeHtml(chapter.title), body |-> EpubChapterBody(chapter, ci)])

ChapterFile(chapter, ci) ==
    [id |-> ChapterId(ci), filename |-> ChapterFilename(ci), title |-> chapter.title]

AddStyle(z) == ZipFile(z, "OEBPS/style.css", "default", "stylesheet")

\* const author = project.settings.authorName || 'Unknown'
UnknownAuthor == <<"U", "n", "k", "n", "o", "w", "n">>
EpubAuthor(project) == IF Truthy(project.authorName) THEN project.authorName ELSE UnknownAuthor

\* OEBPS/title.xhtml
AddTitlePage(z, project) ==
    ZipFile(z, "OEBPS/title.xhtml", "default",
            [headTitle |-> escapeHtml(project.title),
             h1 |-> escapeHtml(project.title),
             author |-> IF EpubAuthor(project) # UnknownAuthor
                        THEN <<"<p>">> \o escapeHtml(EpubAuthor(project)) \o <<"</p>">>
                        ELSE <<>>])

\* a plausible slip: the chapters' play orders start where the title page's does
PlayOrderOf_FromOne(i) == (i - 1) + 1

\* playOrder of the i-th chapter file (i counted from 1; the code's index is i - 1)
PlayOrderOf(i) == (i - 1) + 2

\* tocNcxItems and OEBPS/toc.ncx
NavPoints(files) ==
    <<[id |-> "nav_title", playOrder |-> 1, label |-> <<"T", "i", "t", "l", "e">>,
       src |-> "title.xhtml"]>>
    \o [i \in 1..Len(files) |->
           [id |-> "nav_" \o ToString(i - 1), playOrder |-> PlayOrderOf(i),
            label |-> escapeHtml(files[i].title), src |-> files[i].filename]]

AddNcx(z, project, files) ==
    ZipFile(z, "OEBPS/toc.ncx", "default",
            [docTitle |-> escapeHtml(project.title), navMap |-> NavPoints(files)])

ManifestItems(files) ==
    <<[id |-> "title", href |-> "title.xhtml", mediaType |-> "application/xhtml+xml"],
      [id |-> "style", href |-> "style.css", mediaType |-> "text/css"],
      [id |-> "ncx", href |-> "toc.ncx", mediaType |-> "application/x-dtbncx+xml"]>>
    \o [i \in 1..Len(files) |->
           [id |-> files[i].id, href |-> files[i].filename,
            mediaType |-> "application/xhtml+xml"]]

SpineItems(files) == <<"title">> \o [i \in 1..Len(files) |-> files[i].id]

\* OEBPS/content.opf
AddOpf(z, project, files) ==
    ZipFile(z, "OEBPS/content.opf", "default",
            [dcTitle |-> escapeHtml(project.title),
             dcCreator |-> escapeHtml(EpubAuthor(project)),
             manifest |-> ManifestItems(files),
             spine |-> SpineItems(files)])

\* --------------------------------------- exportPDF, Strategy A (direct text flow)

pageH == 297
marginY == 30
lineHeight == 7
titleY == pageH \div 3
WrapCols == 3     \* characters that fit the content width (jsPDF decides from font metrics)

\* doc.splitTextToSize(text, contentW): the text cut into lines that fit the
\* content width; the empty text gives one empty line
RECURSIVE splitTextToSize(_)
splitTextToSize(text) ==
    IF Len(text) <= WrapCols THEN <<text>>
    ELSE <<SubSeq(text, 1, WrapCols)>> \o splitTextToSize(Drop(text, WrapCols))

\* doc.text(...): one drawn piece of text, with the page and the height it is drawn at
Draw(role, ci, si, text, page, y) ==
    [role |-> role, ci |-> ci, si |-> si, text |-> text, page |-> page, y |-> y]

\* the state of the flow: the cursor y, the number of pages of the document, the
\* pieces drawn so far
addPage(st) == [st EXCEPT !.pages = @ + 1, !.y = marginY]

\* a plausible slip: the test does not count the height that is needed
checkNewPage_IgnoresNeeded(st, needed) ==
    IF st.y > pageH - marginY THEN addPage(st) ELSE st

checkNewPage(st, needed) == IF st.y + needed > pageH - marginY THEN addPage(st) ELSE st

DrawAt(st, role, ci, si, text) ==
    [st EXCEPT !.draws = Append(@, Draw(role, ci, si, text, st.pages, st.y))]

\* the strip chain of Strategy A on a trimmed line: the plain-text chain, then
\* .replace(/^[>-]\s?/, '')
\* a plausible slip: the whitespace after the mark is left in place
StripLeadingMark_MarkOnly(s) ==
    IF s # <<>> /\ s[1] \in {">", "-"} THEN Drop(s, 1) ELSE s

StripLeadingMark(s) ==
    IF s # <<>> /\ s[1] \in {">", "-"}
    THEN IF Len(s) >= 2 /\ IsSpace(s[2]) THEN Drop(s, 2) ELSE Drop(s, 1)
    ELSE s

PdfLineText(trimmed) == StripLeadingMark(StripMarkup(trimmed))

\* the cursor never lies above the top margin; TLC computes a flow state when it
\* meets this test, which keeps the evaluation of long contents shallow
CursorSet(st) == st.y >= marginY

\* wrapped.forEach: checkNewPage(lineHeight), draw, advance
RECURSIVE PdfWrapped(_, _, _, _)
PdfWrapped(st, wrapped, ci, si) ==
    IF wrapped = <<>> \/ ~CursorSet(st) THEN st
    ELSE LET st1 == checkNewPage(st, lineHeight)
             st2 == DrawAt(st1, "sectionBody", ci, si, wrapped[1])
         IN  PdfWrapped([st2 EXCEPT !.y = @ + lineHeight], Tail(wrapped), ci, si)

\* contentLines.forEach: a blank line advances y by 3, any other line is stripped,
\* wrapped and drawn
RECURSIVE PdfLines(_, _, _, _)
PdfLines(st, lines, ci, si) ==
    IF lines = <<>> \/ ~CursorSet(st) THEN st
    ELSE LET trimmed == Trim(lines[1])
         IN  IF trimmed = <<>>
             THEN PdfLines([st EXCEPT !.y = @ + 3], Tail(lines), ci, si)
             ELSE PdfLines(PdfWrapped(st, splitTextToSize(PdfLineText(trimmed)), ci, si),
                           Tail(lines), ci, si)

\* chapter.sections.forEach callback
PdfSection(st, s, ci, si) ==
    IF ~Truthy(s.content) THEN st
    ELSE LET st1 == checkNewPage(st, 20)
             secTitleLines == splitTextToSize(s.title)
             st2 == [DrawAt(st1, "sectionTitle", ci, si, s.title)
                        EXCEPT !.y = @ + Len(secTitleLines) * 6 + 5]
             st3 == PdfLines(st2, Split(s.content, <<"\n">>), ci, si)
         IN  [st3 EXCEPT !.y = @ + 8]

RECURSIVE PdfSections(_, _, _, _)
PdfSections(st, sections, ci, si) ==
    IF si > Len(sections) THEN st
    ELSE PdfSections(PdfSection(st, sections[si], ci, si), sections, ci, si + 1)

\* a plausible slip: the chapter title is drawn without a new page before it
PdfChapter_NoFreshPage(st, chapter, ci) ==
    LET st1 == [st EXCEPT !.y = titleY]
        st2 == DrawAt(st1, "chapterTitle", ci, 0, chapter.title)
    IN  PdfSections(addPage(st2), chapter.sections, ci, 1)

\* a plausible slip: the page break after the chapter-title page is left out
PdfChapter_NoBreak(st, chapter, ci) ==
    LET st1 == [addPage(st) EXCEPT !.y = titleY]
        st2 == DrawAt(st1, "chapterTitle", ci, 0, chapter.title)
    IN  PdfSections(st2, chapter.sections, ci, 1)

\* project.structure.chapters.forEach callback: new page, chapter title at a third
\* of the page height, new page, the sections
PdfChapter(st, chapter, ci) ==
    LET st1 == [addPage(st) EXCEPT !.y = titleY]
        st2 == DrawAt(st1, "chapterTitle", ci, 0, chapter.title)
    IN  PdfSections(addPage(st2), chapter.sections, ci, 1)

RECURSIVE PdfChapters(_, _, _)
PdfChapters(st, chapters, ci) ==
    IF ci > Len(chapters) THEN st
    ELSE PdfChapters(PdfChapter(st, chapters[ci], ci), chapters, ci + 1)

\* exportPDF of Strategy A up to doc.save: a new jsPDF document has one page
PdfFlow(project) ==
    LET st0 == [y |-> marginY, pages |-> 1, draws |-> <<>>]
        titleLines == splitTextToSize(project.title)
        st1 == [DrawAt([st0 EXCEPT !.y = titleY], "title", 0, 0, project.title)
                   EXCEPT !.y = marginY]
        st2 == IF Truthy(project.authorName)
               THEN [DrawAt([st1 EXCEPT !.y = titleY + Len(titleLines) * 14 + 20],
                            "author", 0, 0, project.authorName) EXCEPT !.y = marginY]
               ELSE st1
    IN  PdfChapters(st2, project.chapters, 1)

\* ------------------------------- exportPDF, Strategy B (off-screen rasterized pages)

PAGE_H_PX == 1588      \* Math.round(210 * 3.78 * 2)
PAGE_W_PX == 1058      \* Math.round(140 * 3.78 * 2)
paddingPx == 127       \* Math.round(PAGE_W_PX * 0.12)
contentH == PAGE_H_PX - paddingPx * 2

\* Math.ceil(a / b) for a >= 0, b > 0
CeilDiv(a, b) == (a + b - 1) \div b

\* const numPages = Math.max(1, Math.ceil(totalH / contentH))
NumPages(totalH) == Max(1, CeilDiv(totalH, contentH))

\* the heights measureDiv.scrollHeight is drawn from
MeasuredHeights ==
    {0, 1} \cup {p * contentH + d : p \in 1..MaxMeasuredPages, d \in {0, 1}}

\* the styled HTML of one block of a section's content
StyledBlock(block) ==
    LET t == Trim(block)
    IN  IF t = <<>> THEN <<>>
        ELSE IF StartsWith(t, <<"#", "#", "#", " ">>)
             THEN <<"<h4>">> \o escapeHtml(Drop(t, 4)) \o <<"</h4>">>
        ELSE IF StartsWith(t, <<"#", "#", " ">>)
             THEN <<"<h3>">> \o escapeHtml(Drop(t, 3)) \o <<"</h3>">>
        ELSE IF StartsWith(t, <<"#", " ">>)
             THEN <<"<h2>">> \o escapeHtml(Drop(t, 2)) \o <<"</h2>">>
        ELSE IF StartsWith(t, <<">", " ">>)
             THEN <<"<blockquote>">> \o escapeHtml(StripQuoteMarks(t)) \o <<"</blockquote>">>
        ELSE IF t = <<"-", "-", "-">> \/ t = <<"*", "*", "*">>
             THEN <<"<div>", "U+00B7", " ", "U+00B7", " ", "U+00B7", "</div>">>
        ELSE <<"<p>">> \o InlineHtml(t) \o <<"</p>">>

StyledHtml(content) ==
    LET blocks == Split(content, <<"\n", "\n">>)
    IN  Join([k \in 1..Len(blocks) |-> StyledBlock(blocks[k])], <<"\n">>)

\* chapter.sections.forEach callback: what one section adds to contentHtml
StyledSection(s, ci, si) ==
    IF ~Truthy(s.content) THEN <<>>
    ELSE <<Item("sectionTitle", ci, si, <<"<h3>">>, escapeHtml(s.title), <<"</h3>">>),
           Item("sectionBody", ci, si, <<>>, StyledHtml(s.content), <<>>),
           Item("separator", ci, si, <<"<div>", "U+2726", "</div>">>, <<>>, <<>>)>>

ContentHtml(chapter, ci) ==
    Flatten([si \in 1..Len(chapter.sections) |-> StyledSection(chapter.sections[si], ci, si)])

\* one page of the PDF: what it shows, the chapter it belongs to (0: none), and for
\* a content page the offset of the clipped view, the page number printed on it
\* and the height of the content the view is cut from (innerH, 0 on other pages)
Page(kind, ci, top, pageNum) ==
    [kind |-> kind, ci |-> ci, top |-> top, pageNum |-> pageNum, innerH |-> 0]

\* renderContentPages: numPages clipped views of the same content
ContentPages(ci, totalH, startPage) ==
    [k \in 1..NumPages(totalH) |->
        [Page("content", ci, -(k - 1) * contentH, startPage + k - 1)
            EXCEPT !.innerH = totalH]]

\* ------------------------------------------------------------ the exporters' steps

NoBook == [title |-> <<>>, authorName |-> <<>>, topic |-> <<>>, cover |-> FALSE, chapters |-> <<>>]
NoOut == [ext |-> "none", items |-> <<>>, numPages |-> 0, pageList |-> <<>>]

\* the page before any export: no off-screen container in document.body, the
\* preview's scroll container where the user left it, no alert shown
NoHost == [container |-> "absent", scrollTop |-> 0, alerts |-> <<>>]

\* the designer as mounted: useState<string | null>(null)
NoUi == [exportingFormat |-> "null", inProgress |-> <<>>, downloads |-> <<>>, alerts |-> <<>>]

\* the generation manager as loaded
NoGen ==
    [isRunning |-> FALSE, statusMsg |-> "ready", abortController |-> "null",
     starts |-> 0, updater |-> FALSE,
     sections |-> <<>>, totalWordCount |-> 0, loops |-> <<>>]

textVars == <<input, op, result>>
\* exportPDF of the preview-capturing exporter before it runs
NoCapture == [allElements |-> <<>>, next |-> 1, isFirstPage |-> TRUE, savedScroll |-> 0,
              doc |-> <<>>, thrown |-> {}]

\* Home at the project list before a project was opened; no WriterDashboard yet
NoDash ==
    [project |-> <<>>, store |-> <<>>, mounted |-> 0, mounts |-> 0,
     isGenerating |-> FALSE, currentStatusMsg |-> "ready",
     globalAbortController |-> 0, globalGenerationId |-> 0, aborted |-> {},
     loops |-> <<>>]

sideVars == <<host, ui, gen, capture, dash>>
epubVars == <<zip, chapterFiles>>

Idle == exporter = "none" /\ pc = "idle"

\* exportMarkdown: buildMarkdown, then saveAs(blob, "<name>.md")
ExportMarkdown ==
    /\ Idle
    /\ exporter' = "markdown"
    /\ pc' = "done"
    /\ out' = [NoOut EXCEPT !.ext = "md", !.items = buildMarkdown(book)]
    /\ UNCHANGED <<book, epubVars, textVars, sideVars>>

\* a plausible slip: the chapters are taken off the project's own array as they
\* are written
ExportTXT_ConsumesChapters ==
    /\ Idle
    /\ exporter' = "txt"
    /\ pc' = "done"
    /\ out' = [NoOut EXCEPT !.ext = "txt", !.items = buildPlainText(book)]
    /\ book' = [book EXCEPT !.chapters = <<>>]
    /\ UNCHANGED <<epubVars, textVars, sideVars>>

\* exportTXT: buildPlainText, then saveAs(blob, "<name>.txt")
ExportTXT ==
    /\ Idle
    /\ exporter' = "txt"
    /\ pc' = "done"
    /\ out' = [NoOut EXCEPT !.ext = "txt", !.items = buildPlainText(book)]
    /\ UNCHANGED <<book, epubVars, textVars, sideVars>>

\* exportDOCX: the children array, Packer.toBlob, saveAs(blob, "<name>.docx")
ExportDOCX ==
    /\ Idle
    /\ exporter' = "docx"
    /\ pc' = "done"
    /\ out' = [NoOut EXCEPT !.ext = "docx", !.items = DocxChildren(book)]
    /\ UNCHANGED <<book, epubVars, textVars, sideVars>>

\* exportEPUB, one step per zip.file call
EpubStart ==
    /\ Idle
    /\ exporter' = "epub"
    /\ pc' = "mimetype"
    /\ zip' = <<>>
    /\ chapterFiles' = <<>>
    /\ UNCHANGED <<book, out, textVars, sideVars>>

EpubMimetype ==
    /\ exporter = "epub" /\ pc = "mimetype"
    /\ zip' = AddMimetype(zip)
    /\ pc' = "container"
    /\ UNCHANGED <<book, exporter, chapterFiles, out, textVars, sideVars>>

EpubContainer ==
    /\ exporter = "epub" /\ pc = "container"
    /\ zip' = AddContainer(zip)
    /\ pc' = "chapters"
    /\ UNCHANGED <<book, exporter, chapterFiles, out, textVars, sideVars>>

EpubChapter ==
    /\ exporter = "epub" /\ pc = "chapters"
    /\ Len(chapterFiles) < NumChapters
    /\ LET ci == Len(chapterFiles) + 1
       IN  /\ zip' = AddChapterFile(zip, book.chapters[ci], ci)
           /\ chapterFiles' = Append(chapterFiles, ChapterFile(book.chapters[ci], ci))
    /\ UNCHANGED <<book, exporter, pc, out, textVars, sideVars>>

EpubStyle ==
    /\ exporter = "epub" /\ pc = "chapters"
    /\ Len(chapterFiles) = NumChapters
    /\ zip' = AddStyle(zip)
    /\ pc' = "title"
    /\ UNCHANGED <<book, exporter, chapterFiles, out, textVars, sideVars>>

EpubTitlePage ==
    /\ exporter = "epub" /\ pc = "title"
    /\ zip' = AddTitlePage(zip, book)
    /\ pc' = "ncx"
    /\ UNCHANGED <<book, exporter, chapterFiles, out, textVars, sideVars>>

EpubNcx ==
    /\ exporter = "epub" /\ pc = "ncx"
    /\ zip' = AddNcx(zip, book, chapterFiles)
    /\ pc' = "opf"
    /\ UNCHANGED <<book, exporter, chapterFiles, out, textVars, sideVars>>

EpubOpf ==
    /\ exporter = "epub" /\ pc = "opf"
    /\ zip' = AddOpf(zip, book, chapterFiles)
    /\ pc' = "save"
    /\ UNCHANGED <<book, exporter, chapterFiles, out, textVars, sideVars>>

\* the items of the chapter files of a zip, in the order of the files
EpubItems(z, files) ==
    Flatten([i \in 1..Len(files) |-> ZipEntry(z, "OEBPS/" \o files[i].filename).data.body])

\* zip.generateAsync, then saveAs(blob, "<name>.epub")
EpubSave ==
    /\ exporter = "epub" /\ pc = "save"
    /\ pc' = "done"
    /\ out' = [NoOut EXCEPT !.ext = "epub", !.items = EpubItems(zip, chapterFiles)]
    /\ UNCHANGED <<book, exporter, epubVars, textVars, sideVars>>

\* exportPDF of Strategy A: the flow, then doc.save("<name>.pdf")
ExportPDFA ==
    /\ Idle
    /\ exporter' = "pdfA"
    /\ pc' = "done"
    /\ LET st == PdfFlow(book)
       IN  out' = [NoOut EXCEPT !.ext = "pdf", !.items = st.draws, !.numPages = st.pages]
    /\ UNCHANGED <<book, epubVars, textVars, sideVars>>

\* exportPDF of Strategy B up to the chapter loop: cover (when there is a cover
\* image), title page, table of contents; every page is one renderPage call
PdfBFront ==
    /\ Idle
    /\ exporter' = "pdfB"
    /\ pc' = "chapters"
    /\ LET pages == (IF book.cover THEN <<Page("cover", 0, 0, 0)>> ELSE <<>>)
                    \o <<Page("title", 0, 0, 0), Page("toc", 0, 0, 0)>>
           items == <<Item("title", 0, 0, <<"<h1>">>, escapeHtml(book.title), <<"</h1>">>)>>
                    \o (IF Truthy(book.authorName)
                        THEN <<Item("author", 0, 0, <<"<p>">>, escapeHtml(book.authorName),
                                    <<"</p>">>)>>
                        ELSE <<>>)
                    \o [ci \in 1..NumChapters |->
                           Item("tocEntry", ci, 0, <<"<span>">>,
                                escapeHtml(book.chapters[ci].title), <<"</span>">>)]
       IN  out' = [NoOut EXCEPT !.items = items, !.pageList = pages, !.numPages = Len(pages)]
    /\ host' = [host EXCEPT !.container = "attached"]
    /\ UNCHANGED <<book, epubVars, textVars, ui, gen, capture, dash>>

PagesOfKind(pages, kind) == Cardinality({k \in 1..Len(pages) : pages[k].kind = kind})

\* one turn of the chapter loop: the chapter-title page, then, if (contentHtml),
\* renderContentPages with the height the browser measures
PdfBChapter ==
    /\ exporter = "pdfB" /\ pc = "chapters"
    /\ PagesOfKind(out.pageList, "chapterTitle") < NumChapters
    /\ \E totalH \in MeasuredHeights :
         LET ci == PagesOfKind(out.pageList, "chapterTitle") + 1
             chapter == book.chapters[ci]
             contentHtml == ContentHtml(chapter, ci)
             runningPage == 1 + PagesOfKind(out.pageList, "content")
             pages == <<Page("chapterTitle", ci, 0, 0)>>
                      \o (IF contentHtml # <<>>
                          THEN ContentPages(ci, totalH, runningPage)
                          ELSE <<>>)
             items == <<Item("chapterTitle", ci, 0, <<"<h2>">>, escapeHtml(chapter.title),
                             <<"</h2>">>)>>
                      \o contentHtml
         IN  out' = [out EXCEPT !.items = @ \o items,
                                !.pageList = @ \o pages,
                                !.numPages = Len(out.pageList) + Len(pages)]
    /\ UNCHANGED <<book, exporter, pc, epubVars, textVars, host, ui, gen, capture, dash>>

\* the back page, the removal of the container, doc.save("<name>.pdf")
PdfBBack ==
    /\ exporter = "pdfB" /\ pc = "chapters"
    /\ PagesOfKind(out.pageList, "chapterTitle") = NumChapters
    /\ pc' = "done"
    /\ out' = [out EXCEPT !.ext = "pdf",
                          !.items = @ \o <<Item("back", 0, 0, <<"<p>">>,
                                                escapeHtml(book.topic), <<"</p>">>)>>
                                      \o (IF Truthy(book.authorName)
                                          THEN <<Item("author", 0, 0, <<"<p>">>,
                                                      escapeHtml(book.authorName), <<"</p>">>)>>
                                          ELSE <<>>),
                          !.pageList = Append(@, Page("back", 0, 0, 0)),
                          !.numPages = Len(out.pageList) + 1]
    /\ host' = [host EXCEPT !.container = "removed"]
    /\ UNCHANGED <<book, exporter, epubVars, textVars, ui, gen, capture, dash>>

\* html2canvas, toDataURL or addImage throws inside a renderPage or
\* renderContentPages call: exportPDF has no try, so the rejection leaves it at
\* once; the container is in document.body from before the first renderPage, and
\* the jsPDF document is dropped unsaved
PdfBThrow ==
    /\ Idle \/ (exporter = "pdfB" /\ pc = "chapters")
    /\ exporter' = "pdfB"
    /\ pc' = "failed"
    /\ out' = NoOut
    /\ host' = [host EXCEPT !.container = "attached"]
    /\ UNCHANGED <<book, epubVars, textVars, ui, gen, capture, dash>>

ExportEPUB ==
    \/ EpubStart \/ EpubMimetype \/ EpubContainer \/ EpubChapter \/ EpubStyle
    \/ EpubTitlePage \/ EpubNcx \/ EpubOpf \/ EpubSave

ExportPDFB == PdfBFront \/ PdfBChapter \/ PdfBBack \/ PdfBThrow

\* ------------------------------------------------------------ the books exported

Statuses == {"pending", "generating", "completed", "error"}
SomeContent == <<"x">>

\* the content and status a section is drawn with
SectionKinds ==
    {[content |-> Undefined, status |-> "pending"],
     [content |-> EmptyStr, status |-> "error"],
     [content |-> SomeContent, status |-> "completed"],
     [content |-> SomeContent, status |-> "error"]}

RECURSIVE SumTo(_, _)
SumTo(f, n) == IF n = 0 THEN 0 ELSE f[n] + SumTo(f, n - 1)

\* the numbers of sections of n chapters, at most MaxTotalSections in all
Layouts(n) == {f \in [1..n -> 0..MaxTotalSections] : SumTo(f, n) <= MaxTotalSections}

MakeSection(ci, si, kind) ==
    [title |-> <<"S", ToString(ci), ToString(si)>>, content |-> kind.content,
     status |-> kind.status]

\* the book with layout f whose sections have the kinds ks, numbered through the book
MakeChapters(n, f, ks) ==
    [ci \in 1..n |->
        [title |-> <<"C", ToString(ci)>>,
         sections |-> [si \in 1..f[ci] |-> MakeSection(ci, si, ks[SumTo(f, ci - 1) + si])]]]

FrontMatters ==
    {[authorName |-> <<>>, cover |-> FALSE], [authorName |-> <<"A">>, cover |-> TRUE]}

Init ==
    /\ \E n \in 0..MaxChapters : \E f \in Layouts(n) :
         \E ks \in [1..SumTo(f, n) -> SectionKinds] : \E fm \in FrontMatters :
            book = [title |-> <<"T">>, authorName |-> fm.authorName, topic |-> <<"t">>,
                    cover |-> fm.cover, chapters |-> MakeChapters(n, f, ks)]
    /\ exporter = "none"
    /\ pc = "idle"
    /\ zip = <<>>
    /\ chapterFiles = <<>>
    /\ out = NoOut
    /\ input = <<>>
    /\ op = "none"
    /\ result = <<>>
    /\ host = NoHost
    /\ ui = NoUi
    /\ gen = NoGen
    /\ dash = NoDash
    /\ capture = NoCapture

Next ==
    \/ ExportMarkdown
    \/ ExportTXT
    \/ ExportDOCX
    \/ ExportEPUB
    \/ ExportPDFA
    \/ ExportPDFB

Spec == Init /\ [][Next]_vars

\* ------------------------------------------------- the escaping specification

\* the user strings probed: every string of at most MaxProbeLen of these characters
ProbeAlphabet == {"a", "&", "<", ">", "\"", "*"}
Probes == BoundedSeq(ProbeAlphabet, MaxProbeLen)
ContentPrefixes == {<<>>, <<"#", " ">>, <<"#", "#", " ">>, <<"#", "#", "#", " ">>, <<">", " ">>,
                    <<"*", "*">>, <<"a", "\n", "\n">>}
ContentProbes == {pre \o t \o post : pre \in ContentPrefixes, t \in Probes,
                                     post \in {<<>>, <<"*", "*">>}}
Filler == <<">", "\"">>

\* a book of one chapter with one section, one of whose five user strings is a
\* probe; the others are Filler
ProbeBooks ==
    {[title |-> t, authorName |-> Filler, topic |-> Filler, cover |-> FALSE,
      chapters |-> <<[title |-> Filler,
                      sections |-> <<[title |-> Filler, content |-> Filler,
                                      status |-> "completed"]>>]>>] : t \in Probes}
    \cup
    {[title |-> Filler, authorName |-> t, topic |-> Filler, cover |-> FALSE,
      chapters |-> <<[title |-> Filler,
                      sections |-> <<[title |-> Filler, content |-> Filler,
                                      status |-> "completed"]>>]>>] : t \in Probes}
    \cup
    {[title |-> Filler, authorName |-> Filler, topic |-> Filler, cover |-> FALSE,
      chapters |-> <<[title |-> t,
                      sections |-> <<[title |-> Filler, content |-> Filler,
                                      status |-> "completed"]>>]>>] : t \in Probes}
    \cup
    {[title |-> Filler, authorName |-> Filler, topic |-> Filler, cover |-> FALSE,
      chapters |-> <<[title |-> Filler,
                      sections |-> <<[title |-> t, content |-> Filler,
                                      status |-> "completed"]>>]>>] : t \in Probes}
    \cup
    {[title |-> Filler, authorName |-> Filler, topic |-> Filler, cover |-> FALSE,
      chapters |-> <<[title |-> Filler,
                      sections |-> <<[title |-> Filler, content |-> t,
                                      status |-> "completed"]>>]>>] : t \in ContentProbes}

InitEscape ==
    /\ book \in ProbeBooks
    /\ exporter = "none"
    /\ pc = "idle"
    /\ zip = <<>>
    /\ chapterFiles = <<>>
    /\ out = NoOut
    /\ input = <<>>
    /\ op = "none"
    /\ result = <<>>
    /\ host = NoHost
    /\ ui = NoUi
    /\ gen = NoGen
    /\ dash = NoDash
    /\ capture = NoCapture

SpecEscape == InitEscape /\ [][ExportEPUB]_vars

\* --------------------------------------------------- text-function specification

TextAlphabet == {"#", " ", "*", "a", "\n", "[", Backtick}
LinkWords == {<<"a">>, <<"b", "c">>}
LinkInputs == {<<"[">> \o t \o <<"]", "(">> \o u \o <<")">> : t \in LinkWords, u \in LinkWords}
Stars == {<<>>, <<"*">>, <<"*", "*">>, <<"*", "*", "*">>}
EmphasisInputs == {a \o w \o b : a \in Stars, w \in LinkWords, b \in Stars}
LeadingMarks == {<<"-">>, <<">">>, <<"-", " ">>, <<">", " ">>, <<"-", " ", " ">>, <<"*", "*", "-">>}
MarkedInputs == {m \o w : m \in LeadingMarks, w \in LinkWords \cup {<<>>, <<"-", "a">>}}
TextInputs ==
    BoundedSeq(TextAlphabet, MaxTextLen) \cup LinkInputs \cup EmphasisInputs
    \cup MarkedInputs

InitText ==
    /\ input \in TextInputs
    /\ op = "none"
    /\ result = <<>>
    /\ host = NoHost
    /\ ui = NoUi
    /\ gen = NoGen
    /\ dash = NoDash
    /\ capture = NoCapture
    /\ book = NoBook
    /\ exporter = "none"
    /\ pc = "idle"
    /\ zip = <<>>
    /\ chapterFiles = <<>>
    /\ out = NoOut

bookVars == <<book, exporter, pc, zip, chapterFiles, out>>

\* buildPlainText's replace chain on a section's content
ApplyStripMarkup ==
    /\ op = "none"
    /\ op' = "strip"
    /\ result' = StripMarkup(input)
    /\ UNCHANGED <<input, bookVars, sideVars>>

\* exportEPUB's markdownToBasicHtml(s.content)
ApplyMarkdownToBasicHtml ==
    /\ op = "none"
    /\ op' = "html"
    /\ result' = markdownToBasicHtml(input)
    /\ UNCHANGED <<input, bookVars, sideVars>>

\* exportDOCX's paragraphs of a section's content: their texts, one per line
ApplyDocxContent ==
    /\ op = "none"
    /\ op' = "docx"
    /\ LET ps == DocxContent(input, 0, 0)
       IN  result' = Join([k \in 1..Len(ps) |-> ps[k].text], <<"\n">>)
    /\ UNCHANGED <<input, bookVars, sideVars>>

\* Strategy A's text of a content line
ApplyPdfLineText ==
    /\ op = "none"
    /\ op' = "pdfA"
    /\ result' = PdfLineText(Trim(input))
    /\ UNCHANGED <<input, bookVars, sideVars>>

\* Strategy B's styled HTML of a section's content
ApplyStyledHtml ==
    /\ op = "none"
    /\ op' = "pdfB"
    /\ result' = StyledHtml(input)
    /\ UNCHANGED <<input, bookVars, sideVars>>

NextText ==
    \/ ApplyStripMarkup
    \/ ApplyMarkdownToBasicHtml
    \/ ApplyDocxContent
    \/ ApplyPdfLineText
    \/ ApplyStyledHtml

SpecText == InitText /\ [][NextText]_vars

\* ------------------------------------------------------------ sanitizeFilename

SliceLen == 80

\* \w of a JavaScript regular expression without the u flag
IsWordChar(u) == u \in (48..57) \cup (65..90) \cup (97..122) \cup {95}

\* a plausible slip: the katakana range is left out of the character class
Permitted_NoKatakana(u) ==
    \/ IsWordChar(u)
    \/ u \in 19968..40959
    \/ u \in 12352..12447
    \/ u = 45

\* the code units the class [^\w一-鿿぀-ゟ゠-ヿ-] excludes
Permitted(u) ==
    \/ IsWordChar(u)
    \/ u \in 19968..40959
    \/ u \in 12352..12447
    \/ u \in 12448..12543
    \/ u = 45

\* title.replace(/[^...]/g, '_').slice(0, 80), on UTF-16 code units
sanitizeFilename(title) ==
    SubSeq([i \in 1..Len(title) |-> IF Permitted(title[i]) THEN title[i] ELSE 95],
           1, Min(Len(title), SliceLen))

\* code units at and around the borders of the class, a surrogate pair's halves
SampleUnits == {48, 65, 97, 95, 45, 32, 46, 12351, 12352, 12447, 12448, 12543, 12544,
                19967, 19968, 40959, 40960, 55357, 56832}
PadLens == {0, SliceLen - 2, SliceLen - 1, SliceLen, SliceLen + 1}
PadUnits == {97, 32}

FilenameInputs ==
    {h \o Repeat(u, n) \o t : h \in BoundedSeq(SampleUnits, MaxHeadLen), u \in PadUnits,
                              n \in PadLens, t \in BoundedSeq(SampleUnits, 1)}

InitFilename ==
    /\ input \in FilenameInputs
    /\ op = "none"
    /\ result = <<>>
    /\ host = NoHost
    /\ ui = NoUi
    /\ gen = NoGen
    /\ dash = NoDash
    /\ capture = NoCapture
    /\ book = NoBook
    /\ exporter = "none"
    /\ pc = "idle"
    /\ zip = <<>>
    /\ chapterFiles = <<>>
    /\ out = NoOut

ApplySanitizeFilename ==
    /\ op = "none"
    /\ op' = "sanitize"
    /\ result' = sanitizeFilename(input)
    /\ UNCHANGED <<input, bookVars, sideVars>>

SpecFilename == InitFilename /\ [][ApplySanitizeFilename]_vars

\* ------------------------------------------------------------------ properties

\* reading an escaped string back: the entities of escapeHtml replaced by their
\* characters
RECURSIVE UnescapeHtml(_)
UnescapeHtml(t) ==
    IF t = <<>> THEN <<>>
    ELSE IF StartsWith(t, <<"&", "a", "m", "p", ";">>) THEN <<"&">> \o UnescapeHtml(Drop(t, 5))
    ELSE IF StartsWith(t, <<"&", "l", "t", ";">>) THEN <<"<">> \o UnescapeHtml(Drop(t, 4))
    ELSE IF StartsWith(t, <<"&", "g", "t", ";">>) THEN <<">">> \o UnescapeHtml(Drop(t, 4))
    ELSE IF StartsWith(t, <<"&", "q", "u", "o", "t", ";">>)
         THEN <<"\"">> \o UnescapeHtml(Drop(t, 6))
    ELSE <<t[1]>> \o UnescapeHtml(Tail(t))

Finished == pc = "done"
HtmlOutput == exporter \in {"epub", "pdfB"}

\* the title an item shows, as a reader sees it
ShownTitle(item) == IF HtmlOutput THEN UnescapeHtml(item.text) ELSE item.text

\* the chapter and section titles of an output, in the order they appear in it
RECURSIVE Outline(_)
Outline(items) ==
    IF items = <<>> THEN <<>>
    ELSE (IF items[1].role \in {"chapterTitle", "sectionTitle"}
          THEN <<ShownTitle(items[1])>> ELSE <<>>)
         \o Outline(Tail(items))

IsEmptySection(s) == s.content = Undefined \/ s.content = EmptyStr

\* the titles of the model in model order: each chapter's, then those of its
\* sections with content
ExpectedOutline(chapters) ==
    Flatten([ci \in 1..Len(chapters) |->
        <<chapters[ci].title>>
        \o Flatten([si \in 1..Len(chapters[ci].sections) |->
              IF IsEmptySection(chapters[ci].sections[si]) THEN <<>>
              ELSE <<chapters[ci].sections[si].title>>])])

\* C1: in the output of every exporter the chapter titles, and within each chapter
\* the titles of its sections with content, appear in the order of the model,
\* whatever the sections' status
C1_OrderPreserved == Finished => Outline(out.items) = ExpectedOutline(book.chapters)

\* an EPUB of two chapters in which a section with content and status error is
\* followed by a section without content
C1_Witness ==
    /\ Finished /\ exporter = "epub"
    /\ NumChapters >= 2
    /\ \E ci \in 1..NumChapters :
          /\ Len(book.chapters[ci].sections) = 2
          /\ book.chapters[ci].sections[1].content = SomeContent
          /\ book.chapters[ci].sections[1].status = "error"
          /\ IsEmptySection(book.chapters[ci].sections[2])

ItemsOf(ci, si) == {k \in 1..Len(out.items) : out.items[k].ci = ci /\ out.items[k].si = si}

C5_MimetypeFirst ==
    (exporter = "epub" /\ zip # <<>>) =>
        /\ zip[1].name = "mimetype"
        /\ zip[1].compression = "STORE"
        /\ zip[1].data = "application/epub+zip"
        /\ \A k \in 2..Len(zip) : zip[k].name # "mimetype"

\* a saved EPUB of two chapters: every later zip.file call has been made
C5_Witness ==
    /\ Finished /\ exporter = "epub"
    /\ NumChapters = 2
    /\ Len(zip) = 8

ManifestMatches(opf, idref) == {k \in 1..Len(opf.manifest) : opf.manifest[k].id = idref}

\* C6: the spine has n + 1 itemrefs, title and then chapter_1 .. chapter_n; each
\* idref is the id of exactly one manifest item, the i-th chapter's being the file
\* of the i-th chapter of the model; the NCX numbers the title page 1 and the
\* chapters 2 .. n + 1 in the same order
C6_SpineAndPlayOrder ==
    (exporter = "epub" /\ pc \in {"save", "done"}) =>
        LET opf == ZipEntry(zip, "OEBPS/content.opf").data
            ncx == ZipEntry(zip, "OEBPS/toc.ncx").data
            n == NumChapters
        IN  /\ Len(opf.spine) = n + 1
            /\ opf.spine[1] = "title"
            /\ \A i \in 1..n : opf.spine[i + 1] = "chapter_" \o ToString(i)
            /\ \A j \in 1..(n + 1) : Cardinality(ManifestMatches(opf, opf.spine[j])) = 1
            /\ \A i \in 1..n :
                  LET m == opf.manifest[CHOOSE k \in ManifestMatches(opf, opf.spine[i + 1]) : TRUE]
                  IN  /\ HasEntry(zip, "OEBPS/" \o m.href)
                      /\ UnescapeHtml(ZipEntry(zip, "OEBPS/" \o m.href).data.headTitle)
                            = book.chapters[i].title
                      /\ ncx.navMap[i + 1].src = m.href
            /\ Len(ncx.navMap) = n + 1
            /\ ncx.navMap[1].src = "title.xhtml"
            /\ \A j \in 1..(n + 1) : ncx.navMap[j].playOrder = j

\* a saved EPUB of three chapters
C6_Witness ==
    /\ Finished /\ exporter = "epub"
    /\ NumChapters = 3
    /\ HasEntry(zip, "OEBPS/content.opf")

PdfDone == Finished /\ exporter \in {"pdfA", "pdfB"}
EveryChapterHasContent ==
    \A ci \in 1..NumChapters :
        \E si \in 1..Len(book.chapters[ci].sections) :
            ~IsEmptySection(book.chapters[ci].sections[si])

EntityAt(t, k) ==
    \/ StartsAt(t, k, <<"&", "a", "m", "p", ";">>)
    \/ StartsAt(t, k, <<"&", "l", "t", ";">>)
    \/ StartsAt(t, k, <<"&", "g", "t", ";">>)
    \/ StartsAt(t, k, <<"&", "q", "u", "o", "t", ";">>)

\* no "<", ">" or double quote stands raw in t, and every "&" starts an entity
NoRawSpecials(t) ==
    \A k \in 1..Len(t) :
        /\ t[k] \notin {"<", ">", "\""}
        /\ t[k] = "&" => EntityAt(t, k)

\* t is s escaped: nothing raw, and reading the entities back gives s
EscapedFrom(t, s) == NoRawSpecials(t) /\ UnescapeHtml(t) = s

Count(t, c) == Cardinality({k \in 1..Len(t) : t[k] = c})
CountAmpEntities(t) ==
    Cardinality({k \in 1..Len(t) : StartsAt(t, k, <<"&", "a", "m", "p", ";">>)})

EpubBodyOK(items, chapter) ==
    \A k \in 1..Len(items) :
        CASE items[k].role = "chapterTitle" -> EscapedFrom(items[k].text, chapter.title)
          [] items[k].role = "sectionTitle" ->
                EscapedFrom(items[k].text, chapter.sections[items[k].si].title)
          [] OTHER ->
                /\ NoRawSpecials(items[k].text)
                /\ CountAmpEntities(items[k].text)
                      = Count(chapter.sections[items[k].si].content, "&")

\* C3: in every XML/XHTML file exportEPUB generates, each place that holds a user
\* string (book title, author, chapter title, section title, section content)
\* holds it escaped: no "<", ">" or double quote of the input is raw in the file
\* and every "&" of the input stands as &amp;
C3_EpubEscapesUserStrings ==
    exporter = "epub" =>
        \A k \in 1..Len(zip) :
            LET e == zip[k]
            IN  CASE e.name = "OEBPS/title.xhtml" ->
                        /\ EscapedFrom(e.data.headTitle, book.title)
                        /\ EscapedFrom(e.data.h1, book.title)
                        /\ EscapedFrom(TextOf(e.data.author), book.authorName)
                  [] e.name = "OEBPS/toc.ncx" ->
                        /\ EscapedFrom(e.data.docTitle, book.title)
                        /\ \A i \in 1..NumChapters :
                              EscapedFrom(e.data.navMap[i + 1].label, book.chapters[i].title)
                  [] e.name = "OEBPS/content.opf" ->
                        /\ EscapedFrom(e.data.dcTitle, book.title)
                        /\ EscapedFrom(e.data.dcCreator, EpubAuthor(book))
                  [] \E i \in 1..Len(chapterFiles) : e.name = "OEBPS/" \o chapterFiles[i].filename ->
                        LET i == CHOOSE i \in 1..Len(chapterFiles) :
                                    e.name = "OEBPS/" \o chapterFiles[i].filename
                        IN  /\ EscapedFrom(e.data.headTitle, book.chapters[i].title)
                            /\ EpubBodyOK(e.data.body, book.chapters[i])
                  [] OTHER -> TRUE

\* a saved EPUB whose section title is <& and whose other user strings hold ">"
\* and a double quote
C3_Witness ==
    /\ Finished /\ exporter = "epub"
    /\ NumChapters = 1
    /\ book.chapters[1].sections[1].title = <<"<", "&">>
    /\ book.title = Filler
    /\ HasEntry(zip, "OEBPS/content.opf")

\* C4 as stated: the HTML markdownToBasicHtml produces for a section content is
\* well-formed, every tag closed and tags properly nested, also where bold and
\* italic markers overlap
C4_WellFormedHtml == op = "html" => WellNested(result)

\* C8 as stated: the stripping pipeline of the plain-text exporter is idempotent,
\* strip(strip(x)) = strip(x)
C8_StripIdempotent == op = "strip" => StripMarkup(result) = result

\* the text of the link [text](url) that is the input
LinkText(s) == SubSeq(s, 2, (CHOOSE k \in 1..Len(s) : s[k] = "]" /\ \A j \in 1..(k - 1) : s[j] # "]") - 1)

\* what a reader sees of a result: the text between the tags for the HTML outputs
Visible == IF op \in {"html", "pdfB"} THEN TextOf(result) ELSE result

\* C9 as stated: in every output other than Markdown a link [text](url) in a
\* section's content is rendered as text only
C9_LinksRenderedAsText ==
    (op # "none" /\ input \in LinkInputs) => Visible = LinkText(input)

\* the characters the claim permits in a file name, as UTF-16 code units
AsciiLetters == (65..90) \cup (97..122)
Digits == 48..57
PermittedUnits ==
    AsciiLetters \cup Digits \cup {95, 45} \cup (19968..40959) \cup (12352..12447)
    \cup (12448..12543)

\* C7: sanitizeFilename gives a result of at most 80 code units, all of them
\* permitted; position by position through the first 80 of the input, a permitted
\* character is kept and any other is replaced by "_"
C7_SanitizeFilename ==
    op = "sanitize" =>
        /\ Len(result) = Min(Len(input), 80)
        /\ Len(result) <= 80
        /\ \A i \in 1..Len(result) :
              /\ result[i] \in PermittedUnits
              /\ result[i] = (IF input[i] \in PermittedUnits THEN input[i] ELSE 95)

\* a title of 81 code units that is cut, with a katakana letter kept and a space
\* replaced
C7_Witness ==
    /\ op = "sanitize"
    /\ Len(input) > 80
    /\ Len(result) = 80
    /\ \E i \in 1..80 : input[i] = 12543 /\ result[i] = 12543
    /\ \E i \in 1..80 : input[i] = 32 /\ result[i] = 95

\* the drawn pieces of a direct-flow PDF that lie on page p
DrawsOn(p) == {k \in 1..Len(out.items) : out.items[k].page = p}

\* the page of the direct-flow PDF that holds the title of chapter ci
ChapterTitlePageA(ci) ==
    out.items[CHOOSE k \in 1..Len(out.items) :
                  out.items[k].role = "chapterTitle" /\ out.items[k].ci = ci].page

\* the index in the rendered PDF of the chapter-title page of chapter ci
ChapterTitlePageB(ci) ==
    CHOOSE k \in 1..Len(out.pageList) :
        out.pageList[k].kind = "chapterTitle" /\ out.pageList[k].ci = ci

PageStructureA ==
    /\ \E k \in DrawsOn(1) : out.items[k].role = "title"
    /\ \A ci \in 1..NumChapters :
          LET p == ChapterTitlePageA(ci)
          IN  /\ p > 1
              /\ \A k \in DrawsOn(p) :
                    out.items[k].role = "chapterTitle" /\ out.items[k].ci = ci
              /\ \A k \in 1..Len(out.items) :
                    /\ out.items[k].ci < ci => out.items[k].page < p
                    /\ (out.items[k].ci = ci /\ out.items[k].role # "chapterTitle")
                          => out.items[k].page > p

PageStructureB ==
    /\ out.pageList[1].kind = (IF book.cover THEN "cover" ELSE "title")
    /\ \A ci \in 1..NumChapters :
          /\ Cardinality({k \in 1..Len(out.pageList) :
                            out.pageList[k].kind = "chapterTitle"
                            /\ out.pageList[k].ci = ci}) = 1
          /\ LET p == ChapterTitlePageB(ci)
             IN  \A k \in 1..Len(out.pageList) :
                    /\ (out.pageList[k].kind \in {"cover", "title", "toc"}
                        \/ (out.pageList[k].ci # 0 /\ out.pageList[k].ci < ci)) => k < p
                    /\ (out.pageList[k].kind = "content" /\ out.pageList[k].ci = ci) => k > p

\* C11: in both PDF strategies page 1 carries the title or the cover; the title
\* page of chapter k is a page of its own that comes after everything of the title
\* page, the table of contents and the chapters before k, and the chapter's
\* section content lies on later pages
C11_ChapterPages ==
    /\ (Finished /\ exporter = "pdfA") => PageStructureA
    /\ (Finished /\ exporter = "pdfB") => PageStructureB

\* a direct-flow PDF of two chapters, the first with a section that has content
C11_Witness ==
    /\ Finished /\ exporter = "pdfA"
    /\ NumChapters >= 2
    /\ \E k \in 1..Len(out.items) : out.items[k].role = "sectionBody" /\ out.items[k].ci = 1

\* ------------------- exportPDF, preview capture (rasterizes the rendered preview)

MaxDomChildren == 2   \* most children of the preview container

PAGE_W_MM == 210
PAGE_H_MM == 297
CaptureScale == 2
MinHeight == 10

\* an element of the preview: offsetWidth and offsetHeight in pixels
Element(w, h) == [w |-> w, h |-> h]
PreviewWidths == {105}
ElementHeights == {5, 100, 298}
Elements == {Element(w, h) : w \in PreviewWidths, h \in ElementHeights}

\* a child of the container: an element of class page-break, or a wrapper with
\* child elements of its own
PageBreakChild(e) == [pageBreak |-> TRUE, el |-> e, children |-> <<>>]
Wrapper(es) == [pageBreak |-> FALSE, el |-> Element(0, 0), children |-> es]
DomChildren ==
    {PageBreakChild(e) : e \in Elements}
    \cup {Wrapper(<<>>)}
    \cup {Wrapper(<<Element(w, 100), Element(w, h)>>) : w \in PreviewWidths, h \in {5, 298}}

\* what document.getElementById('book-preview-container') finds, and whether the
\* container has a scrolling ancestor
Previews ==
    {[present |-> FALSE, scrollParent |-> FALSE, children |-> <<>>]}
    \cup {[present |-> TRUE, scrollParent |-> sp, children |-> cs] :
             sp \in BOOLEAN, cs \in BoundedSeq(DomChildren, MaxDomChildren)}

\* the loop over container.children that fills allElements
CollectElements(children) ==
    Flatten([k \in 1..Len(children) |->
                IF children[k].pageBreak THEN <<children[k].el>> ELSE children[k].children])

\* the canvas html2canvas returns for an element at scale 2
CanvasW(e) == e.w * CaptureScale
CanvasH(e) == e.h * CaptureScale

\* pdfH <= PAGE_H_MM, with pdfH = imgH * (PAGE_W_MM / imgW)
FitsOnePage(e) == CanvasH(e) * PAGE_W_MM <= PAGE_H_MM * CanvasW(e)

\* Math.ceil(pdfH / PAGE_H_MM)
PagesNeeded(e) == CeilDiv(CanvasH(e) * PAGE_W_MM, PAGE_H_MM * CanvasW(e))

\* Math.floor(imgH / pagesNeeded)
SliceHeightPx(e) == CanvasH(e) \div PagesNeeded(e)

\* the image of piece p (from 0) of an element: the rows of the canvas it shows
Piece(e, idx, p) ==
    IF FitsOnePage(e)
    THEN [el |-> idx, top |-> 0, height |-> CanvasH(e)]
    ELSE [el |-> idx, top |-> p * SliceHeightPx(e),
          height |-> Min(SliceHeightPx(e), CanvasH(e) - p * SliceHeightPx(e))]

NumPieces(e) == IF FitsOnePage(e) THEN 1 ELSE PagesNeeded(e)

\* the jsPDF document: its pages, each with the images placed on it; a new
\* document has one empty page
NewDoc == <<<<>>>>
DocAddPage(doc) == Append(doc, <<>>)
DocAddImage(doc, img) == [doc EXCEPT ![Len(doc)] = Append(@, img)]

\* if (!isFirstPage) doc.addPage(); doc.addImage(...); isFirstPage = false, for
\* the pieces from p up to but not including stop
RECURSIVE PlacePieces(_, _, _, _, _)
PlacePieces(c, e, idx, p, stop) ==
    IF p >= stop THEN c
    ELSE LET doc1 == IF c.isFirstPage THEN c.doc ELSE DocAddPage(c.doc)
         IN  PlacePieces([c EXCEPT !.doc = DocAddImage(doc1, Piece(e, idx, p)),
                                   !.isFirstPage = FALSE],
                         e, idx, p + 1, stop)

CaptureRunning == exporter = "pdfCapture" /\ pc = "elements"
NextElement == capture.allElements[capture.next]

\* a plausible slip: the check for an empty allElements is left out
CaptureStart_NoEmptyCheck ==
    /\ Idle
    /\ exporter' = "pdfCapture"
    /\ IF ~input.present
       THEN /\ host' = [host EXCEPT !.alerts = Append(@, "noPreview")]
            /\ pc' = "done"
            /\ UNCHANGED capture
       ELSE /\ capture' = [allElements |-> CollectElements(input.children), next |-> 1,
                           isFirstPage |-> TRUE,
                           savedScroll |-> IF input.scrollParent THEN host.scrollTop ELSE 0,
                           doc |-> NewDoc, thrown |-> {}]
            /\ pc' = "elements"
            /\ UNCHANGED host
    /\ UNCHANGED <<book, epubVars, out, textVars, ui, gen, dash>>

\* exportPDF up to the loop: the container is looked up and its page elements are
\* collected; without container or without elements the user is told and
\* exportPDF returns
CaptureStart ==
    /\ Idle
    /\ exporter' = "pdfCapture"
    /\ IF ~input.present
       THEN /\ host' = [host EXCEPT !.alerts = Append(@, "noPreview")]
            /\ pc' = "done"
            /\ UNCHANGED capture
       ELSE IF CollectElements(input.children) = <<>>
       THEN /\ host' = [host EXCEPT !.alerts = Append(@, "noPages")]
            /\ pc' = "done"
            /\ UNCHANGED capture
       ELSE /\ capture' = [allElements |-> CollectElements(input.children), next |-> 1,
                           isFirstPage |-> TRUE,
                           savedScroll |-> IF input.scrollParent THEN host.scrollTop ELSE 0,
                           doc |-> NewDoc, thrown |-> {}]
            /\ pc' = "elements"
            /\ UNCHANGED host
    /\ UNCHANGED <<book, epubVars, out, textVars, ui, gen, dash>>

\* if (el.offsetHeight < 10) continue
CaptureSkip ==
    /\ CaptureRunning
    /\ capture.next <= Len(capture.allElements)
    /\ NextElement.h < MinHeight
    /\ capture' = [capture EXCEPT !.next = @ + 1]
    /\ UNCHANGED <<book, exporter, pc, epubVars, out, textVars, host, ui, gen, dash>>

\* html2canvas may leave the preview scrolled elsewhere
ScrollAfterCapture == IF input.scrollParent THEN {host.scrollTop, 0} ELSE {host.scrollTop}

\* one element captured and placed, whole or in slices
CaptureElement ==
    /\ CaptureRunning
    /\ capture.next <= Len(capture.allElements)
    /\ NextElement.h >= MinHeight
    /\ capture' = [PlacePieces(capture, NextElement, capture.next, 0, NumPieces(NextElement))
                      EXCEPT !.next = @ + 1]
    /\ \E sc \in ScrollAfterCapture : host' = [host EXCEPT !.scrollTop = sc]
    /\ UNCHANGED <<book, exporter, pc, epubVars, out, textVars, ui, gen, dash>>

\* the capture of one element throws and the catch logs it: either html2canvas
\* rejects, before anything is placed, or toDataURL / addImage throws for piece
\* p, after the pieces before it were placed and after doc.addPage() ran for p
CaptureThrows ==
    /\ CaptureRunning
    /\ capture.next <= Len(capture.allElements)
    /\ NextElement.h >= MinHeight
    /\ \/ capture' = [capture EXCEPT !.next = @ + 1, !.thrown = @ \cup {capture.next}]
       \/ \E p \in 0..(NumPieces(NextElement) - 1) :
             LET c == PlacePieces(capture, NextElement, capture.next, 0, p)
             IN  capture' = [c EXCEPT !.doc = IF c.isFirstPage THEN @ ELSE DocAddPage(@),
                                      !.next = @ + 1,
                                      !.thrown = @ \cup {capture.next}]
    /\ \E sc \in ScrollAfterCapture : host' = [host EXCEPT !.scrollTop = sc]
    /\ UNCHANGED <<book, exporter, pc, epubVars, out, textVars, ui, gen, dash>>

\* after the loop: the scroll position is put back, then doc.save
CaptureSave ==
    /\ CaptureRunning
    /\ capture.next > Len(capture.allElements)
    /\ host' = IF input.scrollParent THEN [host EXCEPT !.scrollTop = capture.savedScroll]
               ELSE host
    /\ out' = [NoOut EXCEPT !.ext = "pdf", !.pageList = capture.doc,
                            !.numPages = Len(capture.doc)]
    /\ pc' = "done"
    /\ UNCHANGED <<book, exporter, epubVars, textVars, ui, gen, capture, dash>>

ExportPDFCapture ==
    CaptureStart \/ CaptureSkip \/ CaptureElement \/ CaptureThrows \/ CaptureSave

ScrollTops == {0, 7}

InitCapture ==
    /\ input \in Previews
    /\ \E sc \in ScrollTops : host = [NoHost EXCEPT !.scrollTop = sc]
    /\ book = NoBook
    /\ exporter = "none"
    /\ pc = "idle"
    /\ zip = <<>>
    /\ chapterFiles = <<>>
    /\ out = NoOut
    /\ op = "none"
    /\ result = <<>>
    /\ ui = NoUi
    /\ gen = NoGen
    /\ dash = NoDash
    /\ capture = NoCapture

SpecCapture == InitCapture /\ [][ExportPDFCapture]_vars

\* a rasterizing export has ended: it returned or its promise was rejected
RasterExportEnded == exporter \in {"pdfB", "pdfCapture"} /\ pc \in {"done", "failed"}

\* a rasterization threw during the export
RasterThrew ==
    \/ exporter = "pdfB" /\ pc = "failed"
    \/ exporter = "pdfCapture" /\ capture.thrown # {}

\* the saved document has no page for an element whose capture threw: none of its
\* images, and no page left empty
NoPageForThrown ==
    \A k \in 1..Len(out.pageList) :
        /\ out.pageList[k] # <<>> \/ Len(out.pageList) = 1
        /\ \A j \in 1..Len(out.pageList[k]) : out.pageList[k][j].el \notin capture.thrown

\* C12 as stated: when the rasterization of a page element throws, the rasterizing
\* exporter catches it, adds no page for the element, goes on with the later
\* elements and still saves the PDF
C12_RasterFailureSkipped ==
    (RasterExportEnded /\ RasterThrew) =>
        /\ out.ext = "pdf"
        /\ exporter = "pdfCapture" =>
              (capture.next > Len(capture.allElements) /\ NoPageForThrown)

\* C13 as stated: when a rasterizing export has ended, by completion or by a
\* throw, the off-screen container is no longer in the document and the preview is
\* scrolled where it was
C13_CleanupOnEveryExit ==
    RasterExportEnded =>
        /\ host.container # "attached"
        /\ (exporter = "pdfCapture" /\ capture # NoCapture /\ input.scrollParent)
              => host.scrollTop = capture.savedScroll

\* no page element can be collected: every child is a wrapper without children
NoPageElements ==
    \A k \in 1..Len(input.children) :
        ~input.children[k].pageBreak /\ input.children[k].children = <<>>

\* C14: without the preview container, or with no page element in it, exportPDF
\* tells the user and returns: nothing is rasterized, no document is built and no
\* file is saved
C14_AbortsWithoutPreview ==
    (exporter = "pdfCapture" /\ (~input.present \/ NoPageElements)) =>
        /\ pc = "done"
        /\ Len(host.alerts) = 1
        /\ capture = NoCapture
        /\ out = NoOut

\* the export has returned for a preview whose two children are empty wrappers
C14_Witness ==
    /\ exporter = "pdfCapture" /\ pc = "done"
    /\ input.present
    /\ Len(input.children) = 2
    /\ NoPageElements
    /\ host.alerts = <<"noPages">>

\* C15: no step of any exporter changes the book model it was given (settings,
\* chapters, sections, cover), whether the export completes or fails
C15_BookUnmodified == [][book' = book]_vars

\* an export of a book of two chapters has failed, and another has completed
C15_Witness ==
    /\ NumChapters = 2
    /\ book.cover
    /\ \/ exporter = "pdfB" /\ pc = "failed"
       \/ exporter = "docx" /\ pc = "done"

\* ------------------------------------------- the designer's export buttons

MaxClicks == 3   \* most clicks on export buttons

\* the keys of the buttons; exportMarkdown and exportTXT are synchronous, the
\* other exporters return a promise that settles later
AsyncFormats == {"epub", "pdf", "docx"}
SyncFormats == {"md", "txt"}

Clicks == Len(ui.downloads) + Len(ui.alerts) + Len(ui.inProgress)

\* a plausible slip: the buttons are not disabled during an export
ButtonEnabled_Always == TRUE

\* disabled={!!exportingFormat}; React commits the state set in a click handler
\* before the browser delivers the next click
ButtonEnabled == ui.exportingFormat = "null"

RemoveAt(q, i) == SubSeq(q, 1, i - 1) \o SubSeq(q, i + 1, Len(q))

\* onClick of an asynchronous exporter up to its await: setExportingFormat(key),
\* then fn(project) runs to its first await
ClickAsync ==
    /\ ButtonEnabled
    /\ Clicks < MaxClicks
    /\ \E key \in AsyncFormats :
          ui' = [ui EXCEPT !.exportingFormat = key, !.inProgress = Append(@, key)]
    /\ UNCHANGED <<bookVars, textVars, host, gen, capture, dash>>

\* onClick of a synchronous exporter: fn(project) has saved the file or thrown
\* when the await is reached, and the finally block runs in the same turn
ClickSync ==
    /\ ButtonEnabled
    /\ Clicks < MaxClicks
    /\ \E key \in SyncFormats :
          \/ ui' = [ui EXCEPT !.exportingFormat = "null", !.downloads = Append(@, key)]
          \/ ui' = [ui EXCEPT !.exportingFormat = "null", !.alerts = Append(@, key)]
    /\ UNCHANGED <<bookVars, textVars, host, gen, capture, dash>>

\* the promise of a running export resolves: finally { setExportingFormat(null) }
ExportResolves ==
    /\ \E i \in 1..Len(ui.inProgress) :
          ui' = [ui EXCEPT !.exportingFormat = "null",
                           !.inProgress = RemoveAt(@, i),
                           !.downloads = Append(@, ui.inProgress[i])]
    /\ UNCHANGED <<bookVars, textVars, host, gen, capture, dash>>

\* the promise of a running export rejects: catch { alert }, then finally
ExportRejects ==
    /\ \E i \in 1..Len(ui.inProgress) :
          ui' = [ui EXCEPT !.exportingFormat = "null",
                           !.inProgress = RemoveAt(@, i),
                           !.alerts = Append(@, ui.inProgress[i])]
    /\ UNCHANGED <<bookVars, textVars, host, gen, capture, dash>>

InitButtons ==
    /\ ui = NoUi
    /\ book = NoBook
    /\ exporter = "none"
    /\ pc = "idle"
    /\ zip = <<>>
    /\ chapterFiles = <<>>
    /\ out = NoOut
    /\ input = <<>>
    /\ op = "none"
    /\ result = <<>>
    /\ host = NoHost
    /\ gen = NoGen
    /\ dash = NoDash
    /\ capture = NoCapture

NextButtons == ClickAsync \/ ClickSync \/ ExportResolves \/ ExportRejects

SpecButtons == InitButtons /\ [][NextButtons]_vars

InitMarkdown == Init \/ InitEscape

SpecMarkdown == InitMarkdown /\ [][ExportMarkdown]_vars

\* the Markdown text the claim describes, built front to back
RECURSIVE SectionsMarkdown(_)
SectionsMarkdown(sections) ==
    IF sections = <<>> THEN <<>>
    ELSE (IF IsEmptySection(sections[1]) THEN <<>>
          ELSE <<"#", "#", "#", " ">> \o sections[1].title \o <<"\n", "\n">>
               \o sections[1].content \o <<"\n", "\n">>)
         \o SectionsMarkdown(Tail(sections))

RECURSIVE ChaptersMarkdown(_)
ChaptersMarkdown(chapters) ==
    IF chapters = <<>> THEN <<>>
    ELSE <<"#", "#", " ">> \o chapters[1].title \o <<"\n", "\n">>
         \o SectionsMarkdown(chapters[1].sections)
         \o ChaptersMarkdown(Tail(chapters))

ExpectedMarkdown ==
    <<"#", " ">> \o book.title \o <<"\n", "\n">>
    \o (IF book.authorName = <<>> THEN <<>>
        ELSE <<"*", "*">> \o book.authorName
             \o <<"*", "*", "\n", "\n", "-", "-", "-", "\n", "\n">>)
    \o ChaptersMarkdown(book.chapters)

\* C17: the Markdown output is "# title", the bold author line and a rule only
\* when there is an author, then per chapter "## title" and per section with
\* content "### title" and the content as it is, each followed by a blank line
C17_MarkdownExact ==
    (Finished /\ exporter = "markdown") => Emitted(out.items) = ExpectedMarkdown

\* the Markdown of a book with author whose one section's content is # ** (markup
\* that must come out as it went in)
C17_Witness ==
    /\ Finished /\ exporter = "markdown"
    /\ book.authorName # <<>>
    /\ NumChapters = 1
    /\ Len(book.chapters[1].sections) = 1
    /\ book.chapters[1].sections[1].content = <<"#", " ", "*", "*">>

\* ------------------------------------------------ the generation manager
\* (src/lib/generationManager.ts).  gen holds the module's globals:
\*   isRunning, statusMsg, abortController ("null", or the state of the signal
\*   of the controller the variable holds: "active" or "aborted"; a controller
\*   that was replaced is referenced by nothing), updater (whether a project
\*   updater is connected); the project behind the updater: sections
\*   (flattened over the chapters) and totalWordCount; starts counts the calls
\*   of startGeneration that passed the guard; and loops has one record per
\*   call that reached its loop: pendingSections, the index of the section at
\*   hand, the await the call is suspended at, and whether stopGeneration was
\*   called since the loop began (a call that has returned keeps no locals).
\* Code between two awaits runs as one step.

MaxGenSections == 2
MaxStarts == 2
WordCounts == {1, 2}

\* the status messages, by the texts the code tests for
StatusGenerating == "generating:"
StatusSummarizing == "summarizing"

GenSection(status, wordCount) == [status |-> status, wordCount |-> wordCount]

\* the sections with status 'pending', in book order
RECURSIVE PendingFrom(_, _)
PendingFrom(sections, i) ==
    IF i > Len(sections) THEN <<>>
    ELSE (IF sections[i].status = "pending" THEN <<i>> ELSE <<>>)
         \o PendingFrom(sections, i + 1)

PendingSections(sections) == PendingFrom(sections, 1)

setStatus(g, msg) == [g EXCEPT !.statusMsg = msg]

\* updates: a status, and a word count when it is a completion (0: none given)
updateSection(g, i, status, wordCount) ==
    IF ~g.updater THEN g
    ELSE [g EXCEPT !.totalWordCount = IF wordCount # 0 THEN @ + wordCount ELSE @,
                   !.sections[i] = IF wordCount # 0
                                   THEN GenSection(status, wordCount)
                                   ELSE [@ EXCEPT !.status = status]]

\* _abortController?.signal.aborted
SignalAborted(g) == g.abortController = "aborted"

EndedLoop == [pendingSections |-> <<>>, idx |-> 0, at |-> "ended", stopped |-> FALSE]

\* the finally block of the loop l
LoopFinally(g, l) ==
    [g EXCEPT !.isRunning = FALSE,
              !.abortController = "null",
              !.statusMsg = IF @ \in {StatusGenerating, StatusSummarizing}
                            THEN "batchDone" ELSE @,
              !.loops[l] = EndedLoop]

\* the head of one iteration of the loop l, up to the call of writeSectionContent
LoopIteration(g, l) ==
    LET lp == g.loops[l] IN
    IF lp.idx > Len(lp.pendingSections) THEN LoopFinally(g, l)
    ELSE IF SignalAborted(g) THEN LoopFinally(setStatus(g, "stopped"), l)
    ELSE [updateSection(setStatus(g, StatusGenerating),
                        lp.pendingSections[lp.idx], "generating", 0)
            EXCEPT !.loops[l].at = "write"]

LoopAdvance(g, l) == LoopIteration([g EXCEPT !.loops[l].idx = @ + 1], l)

isGenerationRunning == gen.isRunning

\* startGeneration with the project as it is now; a call while _isRunning
\* returns at once and changes nothing
startGeneration ==
    /\ ~gen.isRunning
    /\ gen.starts < MaxStarts
    /\ LET g1 == [gen EXCEPT !.isRunning = TRUE,
                             !.starts = @ + 1,
                             !.abortController = "active"]
           pending == PendingSections(gen.sections)
       IN gen' = IF pending = <<>>
                 THEN [setStatus(g1, "allDone") EXCEPT !.isRunning = FALSE]
                 ELSE LoopIteration(
                        [g1 EXCEPT !.loops =
                            Append(@, [pendingSections |-> pending, idx |-> 1,
                                       at |-> "start", stopped |-> FALSE])],
                        Len(gen.loops) + 1)
    /\ UNCHANGED <<bookVars, textVars, host, ui, capture, dash>>

stopGeneration ==
    /\ gen' = setStatus([gen EXCEPT !.abortController = IF @ = "null" THEN @
                                                          ELSE "aborted",
                                    !.isRunning = FALSE,
                                    !.loops = [l \in 1..Len(@) |->
                                                 IF @[l].at = "ended" THEN @[l]
                                                 ELSE [@[l] EXCEPT !.stopped = TRUE]]],
                        "stopping")
    /\ UNCHANGED <<bookVars, textVars, host, ui, capture, dash>>

\* writeSectionContent of the loop l returns content of wordCount words
WriteResolves(l, wordCount) ==
    /\ gen.loops[l].at = "write"
    /\ LET lp == gen.loops[l]
           g1 == updateSection(gen, lp.pendingSections[lp.idx], "completed", wordCount)
       IN gen' = IF SignalAborted(g1)
                 THEN LoopFinally(setStatus(g1, "stoppedSaved"), l)
                 ELSE [setStatus(g1, StatusSummarizing) EXCEPT !.loops[l].at = "summarize"]
    /\ UNCHANGED <<bookVars, textVars, host, ui, capture, dash>>

\* writeSectionContent of the loop l throws
WriteRejects(l) ==
    /\ gen.loops[l].at = "write"
    /\ LET lp == gen.loops[l] IN
       gen' = IF SignalAborted(gen)
              THEN LoopFinally(gen, l)
              ELSE [setStatus(updateSection(gen, lp.pendingSections[lp.idx], "error", 0),
                              "sectionFailed")
                      EXCEPT !.loops[l].at = "sleep"]
    /\ UNCHANGED <<bookVars, textVars, host, ui, capture, dash>>

\* summarizeContext returns or throws: either way the loop goes on to its pause
SummarizeSettles(l) ==
    /\ gen.loops[l].at = "summarize"
    /\ gen' = [gen EXCEPT !.loops[l].at = "sleep"]
    /\ UNCHANGED <<bookVars, textVars, host, ui, capture, dash>>

\* the pause at the end of an iteration is over
TimerFires(l) ==
    /\ gen.loops[l].at = "sleep"
    /\ gen' = LoopAdvance(gen, l)
    /\ UNCHANGED <<bookVars, textVars, host, ui, capture, dash>>

GenStatuses == {"pending", "completed", "error"}

InitialSection(status) == GenSection(status, IF status = "completed" THEN 1 ELSE 0)

RECURSIVE SumWordCounts(_)
SumWordCounts(sections) ==
    IF sections = <<>> THEN 0
    ELSE sections[1].wordCount + SumWordCounts(Tail(sections))

InitGeneration ==
    /\ book = NoBook /\ exporter = "none" /\ pc = "idle"
    /\ zip = <<>> /\ chapterFiles = <<>> /\ out = NoOut
    /\ input = <<>> /\ op = "none" /\ result = <<>>
    /\ host = NoHost /\ ui = NoUi /\ capture = NoCapture /\ dash = NoDash
    /\ \E n \in 1..MaxGenSections : \E st \in [1..n -> GenStatuses] :
       \E connected \in BOOLEAN :
         LET sections == [i \in 1..n |-> InitialSection(st[i])] IN
         gen = [NoGen EXCEPT !.sections = sections,
                             !.totalWordCount = SumWordCounts(sections),
                             !.updater = connected]

NextGeneration ==
    \/ startGeneration
    \/ stopGeneration
    \/ \E l \in 1..Len(gen.loops) :
         \/ \E wordCount \in WordCounts : WriteResolves(l, wordCount)
         \/ WriteRejects(l)
         \/ SummarizeSettles(l)
         \/ TimerFires(l)

SpecGeneration == InitGeneration /\ [][NextGeneration]_vars

LoopsExecuting == {l \in 1..Len(gen.loops) : gen.loops[l].at # "ended"}

\* C18: isGenerationRunning() is true exactly while a loop started by
\* startGeneration has not yet left its finally block
C18_RunningIffLoopExecuting ==
    isGenerationRunning <=> (LoopsExecuting # {})

\* ------------------------------------- the specification of the Strategy A flow
\* Books of one chapter whose sections are long enough to run over the page:
\* contents of up to MaxFlowLines lines, all lines of one kind, with a blank
\* line in the place of every (every + 1)-th line when every > 0.

MaxFlowLines == 40

FlowUnits ==
    {<<"a">>, <<"a", "a", "a", "a", "a">>, <<"#", " ", "a">>, <<" ", "a", " ">>,
     <<"*", "*", "*", "*">>}

BlankEvery == {0, 1, 3}

FlowContent(n, unit, every) ==
    Join([i \in 1..n |-> IF every > 0 /\ i % (every + 1) = 0 THEN <<>> ELSE unit],
         <<"\n">>)

FlowSection(si, content) ==
    [title |-> <<"S", ToString(si)>>, content |-> content, status |-> "completed"]

\* one long section; or a section that ends near the foot of the page and a
\* short one after it
FlowSectionLists ==
    {<<FlowSection(1, FlowContent(n, unit, every))>> :
        n \in 1..MaxFlowLines, unit \in FlowUnits, every \in BlankEvery}
    \cup
    {<<FlowSection(1, FlowContent(n, <<"a">>, every)),
       FlowSection(2, FlowContent(2, unit, 0))>> :
        n \in (MaxFlowLines - 7)..MaxFlowLines, unit \in FlowUnits, every \in {0, 3}}

InitFlow ==
    /\ \E sections \in FlowSectionLists :
         book = [title |-> <<"T">>, authorName |-> <<"A">>, topic |-> <<"t">>,
                 cover |-> FALSE,
                 chapters |-> <<[title |-> <<"C", "1">>, sections |-> sections]>>]
    /\ exporter = "none"
    /\ pc = "idle"
    /\ zip = <<>>
    /\ chapterFiles = <<>>
    /\ out = NoOut
    /\ input = <<>>
    /\ op = "none"
    /\ result = <<>>
    /\ host = NoHost
    /\ ui = NoUi
    /\ gen = NoGen
    /\ dash = NoDash
    /\ capture = NoCapture

SpecFlow == InitFlow /\ [][ExportPDFA]_vars

\* the wrapped lines of a section's content, in order
RECURSIVE WrappedLinesOf(_)
WrappedLinesOf(lines) ==
    IF lines = <<>> THEN <<>>
    ELSE (IF Trim(lines[1]) = <<>> THEN <<>>
          ELSE splitTextToSize(PdfLineText(Trim(lines[1]))))
         \o WrappedLinesOf(Tail(lines))

ExpectedLines(content) == WrappedLinesOf(Split(content, <<"\n">>))

IsBodyOf11(d) == d.role = "sectionBody" /\ d.ci = 1 /\ d.si = 1
IsBodyOf12(d) == d.role = "sectionBody" /\ d.ci = 1 /\ d.si = 2

\* the content lines drawn for the section si of the first chapter, in drawing order
BodyDraws(si) ==
    IF si = 1 THEN SelectSeq(out.items, IsBodyOf11) ELSE SelectSeq(out.items, IsBodyOf12)

InsideMargins(d) == marginY <= d.y /\ d.y + lineHeight <= pageH - marginY

\* d2 is drawn below d1 on the same page, or at the top margin of the next page
Follows(d1, d2) ==
    \/ d2.page = d1.page /\ d2.y >= d1.y + lineHeight
    \/ d2.page = d1.page + 1 /\ d2.y = marginY

\* C19: in Strategy A every wrapped line of a section's content is drawn exactly
\* once and in order, at a height y with marginY <= y and
\* y + lineHeight <= pageH - marginY; a line that would not fit is drawn at the
\* top margin of a page added for it
C19_LinesPlaced ==
    (Finished /\ exporter = "pdfA") =>
        \A si \in 1..Len(book.chapters[1].sections) :
            LET ds == BodyDraws(si) IN
            /\ [i \in 1..Len(ds) |-> ds[i].text]
                 = ExpectedLines(book.chapters[1].sections[si].content)
            /\ \A i \in 1..Len(ds) : InsideMargins(ds[i]) /\ ds[i].page <= out.numPages
            /\ \A i \in 1..(Len(ds) - 1) : Follows(ds[i], ds[i + 1])

\* a section with blank lines whose content runs over the foot of a page: the
\* last line of one page would not fit were it drawn one line lower
C19_Witness ==
    /\ Finished /\ exporter = "pdfA"
    /\ \E si \in 1..Len(book.chapters[1].sections) :
         LET ds == BodyDraws(si) IN
         /\ <<>> \in {Trim(l) : l \in {Split(book.chapters[1].sections[si].content,
                                               <<"\n">>)[k] :
                       k \in 1..Len(Split(book.chapters[1].sections[si].content, <<"\n">>))}}
         /\ \E i \in 1..(Len(ds) - 1) :
              /\ ds[i + 1].page = ds[i].page + 1
              /\ ds[i].y + 2 * lineHeight <= pageH - marginY
              /\ ds[i + 1].y = marginY

\* ------------------------------------------------ the pages of renderContentPages

\* the content pages of chapter ci, by their places in the document
ContentPagesOf(ci) ==
    {k \in 1..Len(out.pageList) :
        out.pageList[k].kind = "content" /\ out.pageList[k].ci = ci}

\* the clipped view is PAGE_H_PX high and hides what overflows it: the page shows
\* the vertical positions of the content from -top up to -top + PAGE_H_PX
ShownOn(page, pos) == -page.top <= pos /\ pos < -page.top + PAGE_H_PX

\* C20: the content pages of a chapter are ceil(H / h) views (at least one), the
\* p-th shifted up by p * h, and the ranges they show partition the content:
\* every position in [0, H) is shown on at least one page and on no two pages
C20_PagesPartitionContent ==
    exporter = "pdfB" =>
        \A ci \in 1..NumChapters :
            LET ks == ContentPagesOf(ci) IN
            \A k \in ks :
                LET H == out.pageList[k].innerH IN
                /\ Cardinality(ks) = Max(1, CeilDiv(H, contentH))
                /\ \E p \in 0..(Cardinality(ks) - 1) : out.pageList[k].top = -p * contentH
                /\ \A pos \in 0..(H - 1) :
                     Cardinality({j \in ks : ShownOn(out.pageList[j], pos)}) = 1

\* ------------------------------------------------ the slices of a tall element

\* the images of the element idx in the saved document
ImagesOf(idx) ==
    UNION {{out.pageList[k][j] : j \in {i \in 1..Len(out.pageList[k]) :
                                          out.pageList[k][i].el = idx}} :
           k \in 1..Len(out.pageList)}

\* the elements rasterized in full that are higher than one page
SlicedElements ==
    {idx \in 1..Len(capture.allElements) :
        /\ idx \notin capture.thrown
        /\ capture.allElements[idx].h >= MinHeight
        /\ ~FitsOnePage(capture.allElements[idx])}

\* C21: an image higher than one page is cut into pagesNeeded slices of equal
\* pixel height, contiguous and not overlapping, whose heights sum to the image
\* height: every pixel row is in exactly one slice, and each slice scaled to the
\* page width is at most one page high
C21_SlicesCoverImage ==
    (exporter = "pdfCapture" /\ pc = "done" /\ out.ext = "pdf") =>
        \A idx \in SlicedElements :
            LET e == capture.allElements[idx]
                imgs == ImagesOf(idx)
            IN  /\ Cardinality(imgs) = PagesNeeded(e)
                /\ \A a, b \in imgs : a.height = b.height
                /\ \A img \in imgs :
                     img.height * PAGE_W_MM <= PAGE_H_MM * CanvasW(e)
                /\ \A row \in 0..(CanvasH(e) - 1) :
                     Cardinality({img \in imgs : img.top <= row
                                                 /\ row < img.top + img.height}) = 1

\* ------------------------------------------------ the text of one content line

\* the input is one line of a section's content, and it is not blank
OneLine == (\A k \in 1..Len(input) : input[k] # "\n") /\ Trim(input) # <<>>

\* C22 as stated: the text Strategy A draws for a non-blank line is the plain-text
\* strip chain (heading marks, bold, italic, code, links) of the trimmed line
C22_PdfTextIsPlainText ==
    (op = "pdfA" /\ OneLine) => result = StripMarkup(Trim(input))

\* the text without one leading ">" or "-" and the whitespace character after it
WithoutLeadingMark(t) ==
    IF t = <<>> \/ t[1] \notin {">", "-"} THEN t
    ELSE IF Len(t) >= 2 /\ t[2] \in {" ", "\n"} THEN SubSeq(t, 3, Len(t))
    ELSE SubSeq(t, 2, Len(t))

\* C22 amended: the text Strategy A draws for a non-blank line is the plain-text
\* strip chain of the trimmed line with one leading ">" or "-", and one
\* whitespace character after it, removed
C22_PdfTextAmended ==
    (op = "pdfA" /\ OneLine) => result = WithoutLeadingMark(StripMarkup(Trim(input)))

\* the line "- a" was drawn: a list mark, a blank, a word
C22_Witness ==
    /\ op = "pdfA"
    /\ input = <<"-", " ", "a">>
    /\ result = <<"a">>

\* the lines of the input that are not blank, trimmed
NonBlankLines == SelectSeq([k \in 1..Len(Split(input, <<"\n">>)) |->
                               Trim(Split(input, <<"\n">>)[k])],
                           LAMBDA l : l # <<>>)

\* a trimmed line that is neither a heading, nor a block quote, nor a rule
IsBodyLine(t) ==
    /\ ~StartsWith(t, <<"#", " ">>)
    /\ ~StartsWith(t, <<"#", "#", " ">>)
    /\ ~StartsWith(t, <<"#", "#", "#", " ">>)
    /\ ~StartsWith(t, <<">", " ">>)
    /\ t \notin {<<"-", "-", "-">>, <<"*", "*", "*">>}

AllBodyLines == \A k \in 1..Len(NonBlankLines) : IsBodyLine(NonBlankLines[k])

\* C23 as stated: every non-blank line gives one paragraph, and the text of a
\* body paragraph is the plain-text strip chain of the trimmed line
C23_DocxBodyIsPlainText ==
    (op = "docx" /\ AllBodyLines) =>
        result = Join([k \in 1..Len(NonBlankLines) |-> StripMarkup(NonBlankLines[k])],
                      <<"\n">>)

\* C23 amended: every non-blank line gives one paragraph, and the text of a body
\* paragraph is the trimmed line after the bold, italic, code and link passes;
\* the heading-mark pass of the plain-text chain is not applied
C23_DocxBodyAmended ==
    (op = "docx" /\ AllBodyLines) =>
        result = Join([k \in 1..Len(NonBlankLines) |->
                          StripLinks(StripCode(StripItalic(StripBold(NonBlankLines[k]))))],
                      <<"\n">>)

\* a body line with a heading mark inside it became one paragraph with the mark
\* still in it
C23_Witness ==
    /\ op = "docx"
    /\ input = <<"a", "#", " ", "a">>
    /\ result = input

\* ------------------------------------------------ the loops of the generation manager

\* C24: at most one generation loop is executing at any time; a startGeneration
\* call made before an earlier loop has finished starts no second loop
C24_OneLoopAtATime == Cardinality(LoopsExecuting) <= 1

\* the loop l goes on to a section: it sets it to 'generating' and calls
\* writeSectionContent for it
StartsSection(l) == gen.loops[l].at # "write" /\ gen'.loops[l].at = "write"

\* C25: a loop that was running when stopGeneration was called sets no further
\* section to 'generating', also when startGeneration is called again before the
\* call in flight returns
C25_StoppedLoopStartsNothing ==
    [][\A l \in 1..Len(gen.loops) : gen.loops[l].stopped => ~StartsSection(l)]_vars

\* C29: totalWordCount equals the sum of the sections' wordCount after every
\* section update of the loop; no section's words are added twice
C29_TotalIsSumOfSections == gen.totalWordCount = SumWordCounts(gen.sections)

\* ------------------------------------------------ WriterDashboard under Home
\* (src/components/WriterDashboard.tsx, Home in src/unnamed/part_003).  dash holds
\*   project: Home's project state, <<>> for null, else [id, sections,
\*     totalWordCount]; the sections are flattened over the chapters, and a
\*     section is found by its place, as the ids c-<i>-s-<j> of the outline
\*     route are its indices;
\*   store: the saved projects, by id;
\*   mounted: the WriterDashboard instance on the page (0: none), mounts: how
\*     many were mounted so far; isGenerating and currentStatusMsg are the state
\*     of the mounted instance;
\*   globalAbortController (0: null, else the number of the controller),
\*   globalGenerationId, aborted: the controllers whose signal is aborted;
\*   loops: one record per startBatchGeneration call that reached its loop:
\*     myGenerationId (also the number of its abortController), the instance
\*     whose setters it holds, the project it was started for, pendingSections,
\*     the index of the section at hand, the await it is suspended at, and
\*     whether the stop button was pressed while it ran.
\* A section's content is written as the id of the project whose section it
\* was generated for (0: no content).

MaxDashSections == 2
MaxDashStarts == 2
MaxMounts == 2

DashSection(status, content, wordCount) ==
    [status |-> status, content |-> content, wordCount |-> wordCount]

\* setIsGenerating and setCurrentStatusMsg of the instance inst: a state update
\* of an unmounted component does nothing
SetIsGenerating(d, inst, v) ==
    IF d.mounted = inst THEN [d EXCEPT !.isGenerating = v] ELSE d

SetCurrentStatusMsg(d, inst, msg) ==
    IF d.mounted = inst THEN [d EXCEPT !.currentStatusMsg = msg] ELSE d

\* updateSection: setProject(prev => ...) on whatever project Home holds now
DashUpdateSection(d, i, status, content, wordCount) ==
    IF d.project = <<>> THEN d
    ELSE [d EXCEPT
            !.project.totalWordCount = IF wordCount # 0 THEN @ + wordCount ELSE @,
            !.project.sections =
                [k \in 1..Len(@) |->
                    IF k # i THEN @[k]
                    ELSE IF wordCount # 0 THEN DashSection(status, content, wordCount)
                    ELSE [@[k] EXCEPT !.status = status]]]

DashEndedLoop ==
    [myGenerationId |-> 0, inst |-> 0, project |-> 0, pendingSections |-> <<>>,
     idx |-> 0, at |-> "ended", stopped |-> FALSE]

\* abortController.signal.aborted of the loop lp
DashAborted(d, lp) == lp.myGenerationId \in d.aborted

\* the finally block of the loop l; allSections there is the one of the render
\* the loop was started from, in which every section of pendingSections is pending
DashFinally(d, l) ==
    LET lp == d.loops[l]
        d1 == IF d.globalGenerationId = lp.myGenerationId
              THEN LET d2 == SetIsGenerating(d, lp.inst, FALSE)
                   IN  IF ~DashAborted(d, lp)
                       THEN SetCurrentStatusMsg(d2, lp.inst,
                                IF Len(lp.pendingSections) > 0 THEN "paused" ELSE "allDone")
                       ELSE d2
              ELSE d
    IN  [d1 EXCEPT !.loops[l] = DashEndedLoop]

\* the head of one iteration of the loop l, up to the call of writeSectionContent
DashIteration(d, l) ==
    LET lp == d.loops[l] IN
    IF lp.idx > Len(lp.pendingSections) THEN DashFinally(d, l)
    ELSE IF DashAborted(d, lp)
         THEN DashFinally(SetCurrentStatusMsg(d, lp.inst, "stoppedGenerating"), l)
    ELSE IF d.globalGenerationId # lp.myGenerationId THEN DashFinally(d, l)
    ELSE [DashUpdateSection(SetCurrentStatusMsg(d, lp.inst, "generating"),
                            lp.pendingSections[lp.idx], "generating", 0, 0)
            EXCEPT !.loops[l].at = "write"]

\* the abort() of the controller globalAbortController holds, if any
AbortGlobal(d) ==
    IF d.globalAbortController # 0
    THEN [d EXCEPT !.aborted = @ \cup {d.globalAbortController}]
    ELSE d

\* the start button of the mounted WriterDashboard, shown while !isGenerating
startBatchGeneration ==
    /\ dash.mounted # 0
    /\ ~dash.isGenerating
    /\ dash.globalGenerationId < MaxDashStarts
    /\ LET id == dash.globalGenerationId + 1
           d1 == [AbortGlobal(dash) EXCEPT !.globalAbortController = id,
                                           !.globalGenerationId = id,
                                           !.isGenerating = TRUE]
           pending == PendingSections(dash.project.sections)
       IN  dash' = IF pending = <<>>
                   THEN [d1 EXCEPT !.currentStatusMsg = "allDone", !.isGenerating = FALSE]
                   ELSE DashIteration(
                          [d1 EXCEPT !.loops =
                              Append(@, [myGenerationId |-> id, inst |-> dash.mounted,
                                         project |-> dash.project.id,
                                         pendingSections |-> pending, idx |-> 1,
                                         at |-> "start", stopped |-> FALSE])],
                          Len(dash.loops) + 1)
    /\ UNCHANGED <<bookVars, textVars, host, ui, gen, capture>>

\* the stop button of the mounted WriterDashboard, shown while isGenerating
DashStopGeneration ==
    /\ dash.mounted # 0
    /\ dash.isGenerating
    /\ dash' = [AbortGlobal(dash) EXCEPT
                  !.globalAbortController = 0,
                  !.isGenerating = FALSE,
                  !.currentStatusMsg = "stopped",
                  !.loops = [l \in 1..Len(@) |->
                               IF @[l].at # "ended"
                                  /\ @[l].myGenerationId = dash.globalAbortController
                               THEN [@[l] EXCEPT !.stopped = TRUE] ELSE @[l]]]
    /\ UNCHANGED <<bookVars, textVars, host, ui, gen, capture>>

\* writeSectionContent of the loop l returns content; the word count is
\* content.trim().split(/\\s+/).length, which is 1 for content without "\s"
DashWriteResolves(l) ==
    /\ dash.loops[l].at = "write"
    /\ LET lp == dash.loops[l]
           d1 == DashUpdateSection(dash, lp.pendingSections[lp.idx], "completed",
                                   lp.project, 1)
       IN  dash' = IF DashAborted(dash, lp) \/ dash.globalGenerationId # lp.myGenerationId
                   THEN DashFinally(d1, l)
                   ELSE [SetCurrentStatusMsg(d1, lp.inst, "summarizing")
                           EXCEPT !.loops[l].at = "summarize"]
    /\ UNCHANGED <<bookVars, textVars, host, ui, gen, capture>>

\* writeSectionContent of the loop l throws
DashWriteRejects(l) ==
    /\ dash.loops[l].at = "write"
    /\ LET lp == dash.loops[l] IN
       dash' = IF DashAborted(dash, lp)
               THEN DashFinally(dash, l)
               ELSE [SetCurrentStatusMsg(
                        DashUpdateSection(dash, lp.pendingSections[lp.idx], "error", 0, 0),
                        lp.inst, "sectionFailed")
                       EXCEPT !.loops[l].at = "sleep"]
    /\ UNCHANGED <<bookVars, textVars, host, ui, gen, capture>>

\* summarizeContext returns or throws: either way the loop goes on to its pause
DashSummarizeSettles(l) ==
    /\ dash.loops[l].at = "summarize"
    /\ dash' = [dash EXCEPT !.loops[l].at = "sleep"]
    /\ UNCHANGED <<bookVars, textVars, host, ui, gen, capture>>

\* the pause at the end of an iteration is over
DashTimerFires(l) ==
    /\ dash.loops[l].at = "sleep"
    /\ dash' = DashIteration([dash EXCEPT !.loops[l].idx = @ + 1], l)
    /\ UNCHANGED <<bookVars, textVars, host, ui, gen, capture>>

\* Home's handleBackToDashboard: the project is saved and Home shows the project
\* list; WriterDashboard unmounts, and its clean-up aborts the global controller
handleBackToDashboard ==
    /\ dash.project # <<>>
    /\ dash' = [AbortGlobal(dash) EXCEPT
                  !.store[dash.project.id] = dash.project,
                  !.project = <<>>,
                  !.mounted = 0,
                  !.globalAbortController = 0,
                  !.isGenerating = FALSE,
                  !.currentStatusMsg = "ready"]
    /\ UNCHANGED <<bookVars, textVars, host, ui, gen, capture>>

\* the sections stuck in 'generating' go back to 'pending'
ResetStuck(sections) ==
    [k \in 1..Len(sections) |->
        IF sections[k].status = "generating"
        THEN [sections[k] EXCEPT !.status = "pending"] ELSE sections[k]]

\* Home's handleOpenProject(id) from the project list, for a project saved at the
\* writing step: a new WriterDashboard mounts and its mount effect runs
handleOpenProject(id) ==
    /\ dash.project = <<>>
    /\ dash.mounts < MaxMounts
    /\ LET saved == dash.store[id]
           stuck == \E k \in 1..Len(saved.sections) : saved.sections[k].status = "generating"
       IN  dash' = [dash EXCEPT
                      !.project = [saved EXCEPT !.sections = ResetStuck(@)],
                      !.mounted = dash.mounts + 1,
                      !.mounts = @ + 1,
                      !.isGenerating = FALSE,
                      !.currentStatusMsg = IF stuck THEN "resetToPending" ELSE "ready"]
    /\ UNCHANGED <<bookVars, textVars, host, ui, gen, capture>>

DashStatuses == {"pending", "completed"}

\* a stored section: a completed one has content of its own project
StoredSection(id, status) ==
    IF status = "completed" THEN DashSection(status, id, 1) ELSE DashSection(status, 0, 0)

StoredProject(id, st) ==
    LET sections == [k \in 1..Len(st) |-> StoredSection(id, st[k])]
    IN  [id |-> id, sections |-> sections, totalWordCount |-> SumWordCounts(sections)]

\* two projects in the store, Home at the project list
InitDashboard ==
    /\ book = NoBook /\ exporter = "none" /\ pc = "idle"
    /\ zip = <<>> /\ chapterFiles = <<>> /\ out = NoOut
    /\ input = <<>> /\ op = "none" /\ result = <<>>
    /\ host = NoHost /\ ui = NoUi /\ capture = NoCapture /\ gen = NoGen
    /\ \E st1 \in BoundedSeq(DashStatuses, MaxDashSections) \ {<<>>} :
       \E st2 \in BoundedSeq(DashStatuses, MaxDashSections) \ {<<>>} :
         dash = [NoDash EXCEPT !.store = <<StoredProject(1, st1), StoredProject(2, st2)>>]

NextDashboard ==
    \/ startBatchGeneration
    \/ DashStopGeneration
    \/ handleBackToDashboard
    \/ \E id \in 1..Len(dash.store) : handleOpenProject(id)
    \/ \E l \in 1..Len(dash.loops) :
         \/ DashWriteResolves(l)
         \/ DashWriteRejects(l)
         \/ DashSummarizeSettles(l)
         \/ DashTimerFires(l)

SpecDashboard == InitDashboard /\ [][NextDashboard]_vars

\* the projects of Home and of the store
DashProjects ==
    {dash.store[id] : id \in 1..Len(dash.store)}
    \cup (IF dash.project = <<>> THEN {} ELSE {dash.project})

\* C26: a loop writes section updates only into the project it was started for:
\* no section of another project is changed by it, so no section ever holds
\* content generated for a section of a different project
C26_UpdatesStayInProject ==
    \A p \in DashProjects : \A k \in 1..Len(p.sections) :
        p.sections[k].content \in {0, p.id}

\* the project with this id as it is now: in Home's state, else in the store
ProjectNow(d, id) ==
    IF d.project # <<>> /\ d.project.id = id THEN d.project ELSE d.store[id]

\* C27: when generation is stopped while a section's call is in flight and the
\* call then returns content, the content is saved (the section of the loop's
\* project ends 'completed' with the content and its word count) and the loop
\* ends without starting another section
C27_StoppedContentSaved ==
    [][\A l \in 1..Len(dash.loops) :
          (dash.loops[l].stopped /\ DashWriteResolves(l)) =>
              /\ dash'.loops[l].at = "ended"
              /\ LET lp == dash.loops[l] IN
                 ProjectNow(dash', lp.project).sections[lp.pendingSections[lp.idx]]
                    = DashSection("completed", lp.project, 1)]_vars

\* C28: whenever no generation loop is executing, no section has status
\* 'generating'
C28_NoSectionLeftGenerating ==
    (LoopsExecuting = {}) =>
        \A k \in 1..Len(gen.sections) : gen.sections[k].status # "generating"

\* the loop l takes a step
DashLoopStep(l) == dash'.loops[l].at # dash.loops[l].at

\* the loop l was started before the newest loop, which is executing
Superseded(l) ==
    /\ dash.loops[l].at # "ended"
    /\ dash.loops[l].myGenerationId < dash.globalGenerationId
    /\ \E n \in 1..Len(dash.loops) :
         /\ dash.loops[n].at # "ended"
         /\ dash.loops[n].myGenerationId = dash.globalGenerationId

\* C30: once startBatchGeneration has started a new loop, an earlier loop sets no
\* further section to 'generating' and changes neither the isGenerating flag nor
\* the status message of the new loop
C30_EarlierLoopsKilled ==
    [][\A l \in 1..Len(dash.loops) :
          (Superseded(l) /\ DashLoopStep(l)) =>
              /\ dash'.loops[l].at # "write"
              /\ dash'.isGenerating = dash.isGenerating
              /\ dash'.currentStatusMsg = dash.currentStatusMsg]_vars

====
